---- MODULE Spec2Model ----
(***************************************************************************)
(* A model of audio_async_loopback: the IEC 61937 burst state machine      *)
(* (iec_61937.c), the IEC 60958 mode arbiter (main.c) and the two sinks    *)
(* with their ring buffers and worker threads (pcm_sink.c, ac3_sink.c).    *)
(*                                                                         *)
(* Specifications:                                                         *)
(*   SpecFsm    iec_61937_fsm_run fed one sample at a time, any sample     *)
(*   SpecBursts process_chunk_iec_61937 fed a stream of well-formed bursts *)
(*   SpecSinks  one open sink: producer (process) against output_thread    *)
(*   Spec       iec_60958_process, one input chunk per step                *)
(***************************************************************************)
EXTENDS Integers, Sequences, FiniteSets, TLC

VARIABLES
    fsm,        \* struct iec_61937_fsm: state, data_type, payload_len, bytes_received, payload
    ret,        \* value returned by the last iec_61937_fsm_run / process_chunk_iec_61937
    cb_log,     \* packet_cb invocations [data_type, len, payload], oldest first: of the
                \* last call (SpecFsm, Spec), of the whole stream (SpecBursts)
    bursts,     \* SpecBursts: the payloads the input stream was built from
    stream,     \* SpecBursts: the input bytes still to be read;
                \* SpecPreamble: the samples still to be fed
    probe,      \* observation of the last iec_61937_fsm_run call: called, the
                \* S16LE sample passed, the struct before the call; and
                \* (SpecPreamble) the state the machine started in and the
                \* zeros of the input
    arb,        \* struct iec_60958: state, non_61937_chunks
    pcm,        \* struct pcm_sink
    ac3,        \* struct ac3_sink
    chunk_ev,   \* observation of iec_60958_process: all_unlocked (no chunk so far
                \* was locked), n (the chunks so far while all_unlocked, counted
                \* up to the detection window + 1; 0 afterwards), chunks (the
                \* chunks so far, counted up to 2), run (the latest chunks in a
                \* row that were not locked, counted up to the window + 1),
                \* run_cb (the packet callback was called during one of those
                \* run chunks), and of the last
                \* call: mode on entry, locked, the sink calls made in order, the
                \* payloads fed to ac3_sink_process, peak (the most playback
                \* devices held at one time during the call)
    sink,       \* SpecSinks: which sink is the open one
    lock,       \* SpecSinks: owner of inst->lock
    prod_pc,    \* SpecSinks: position of the main thread inside *_sink_process
    cons_pc,    \* SpecSinks: position of output_thread
    last_op,    \* SpecSinks: what the last step did to the ring (observation only)
    queued,     \* SpecSinks: the samples stored in the ring and not yet copied
                \* out of it, counted without the mask (observation only)
    loop,       \* SpecLoop: the control loop's fields of a sink struct
    drift       \* SpecDrift: the PCM sink between two clock domains

vars == <<fsm, ret, cb_log, bursts, stream, probe, arb, pcm, ac3, chunk_ev,
          sink, lock, prod_pc, cons_pc, last_op, queued, loop, drift>>

fsmVars  == <<fsm, ret, cb_log, bursts, stream, probe>>
arbVars  == <<arb, chunk_ev>>
sinkVars == <<pcm, ac3, sink, lock, prod_pc, cons_pc, last_op, queued>>
loopVars == <<loop, drift>>

(***************************************************************************)
(* Program constants                                                       *)
(***************************************************************************)
IEC_61937_SYNC_WORD_0 == 63602      \* 0xF872
IEC_61937_SYNC_WORD_1 == 19999      \* 0x4E1F
IEC_61937_DATA_TYPE_MASK == 127     \* 0x7F
IEC_61937_MAX_BURST_PAYLOAD == 65536
IEC_61937_DATA_TYPE_AC3 == 1
IEC_61937_DATA_TYPE_EXTENDED == 31

IEC_61937_STATE_FIRST_0 == 0
IEC_61937_STATE_SECOND_0 == 1
IEC_61937_STATE_THIRD_0 == 2
IEC_61937_STATE_FOURTH_0 == 3
IEC_61937_STATE_SYNC_0 == 4
IEC_61937_STATE_SYNC_1 == 5
IEC_61937_STATE_DATA_TYPE == 6
IEC_61937_STATE_LENGTH == 7
IEC_61937_STATE_PAYLOAD == 8

INPUT_CHUNK_SIZE == 512
IEC_61937_DETECTION_WINDOW == 64

(***************************************************************************)
(* Bounds of the model                                                     *)
(***************************************************************************)
\* SpecFsm, Spec: the machine is followed while bytes_received <= MaxBytes.
MaxBytes == 4
\* SpecBursts: bursts per stream, payload bytes per burst, and samples per
\* chunk (a chunk may also hold all that is left of the stream).
MaxBursts == 2
MaxPayloadLen == 2
MaxChunkWords == 3
\* Spec: samples per input chunk (main reads INPUT_CHUNK_SIZE / 2 = 256 of
\* them; process_chunk_iec_61937 takes the size as a parameter).
ChunkSamples == 10
\* The arbiter is followed until the payload index has run this many bytes
\* past payload_len.
MaxOverrun == 40

(***************************************************************************)
(* iec_61937.c                                                             *)
(***************************************************************************)
\* Variant: the sample is taken as it is.
bswap16_none(x) == x

\* __builtin_bswap16 on a uint16_t.
bswap16(x) == (x % 256) * 256 + (x \div 256)

\* (size_t)(a - b) >= k for 0 <= a, b < 2^31 and 0 < k <= 2^31: the difference
\* of two size_t wraps modulo 2^64 (2^32), so with a < b it is at least
\* 2^32 - 2^31, which is >= k.
SizeSubGe(a, b, k) == IF a >= b THEN a - b >= k ELSE TRUE

\* iec_61937_fsm_init: memset 0, state FIRST_0. payload holds
\* payload[0 .. bytes_received-1], the only part packet_cb is given.
iec_61937_fsm_init ==
    [state |-> IEC_61937_STATE_FIRST_0, data_type |-> 0, payload_len |-> 0,
     bytes_received |-> 0, payload |-> <<>>]

\* Variant: the last sample of a payload always stores both its bytes.
FsmStorePayloadBoth(f, sample) ==
    [f EXCEPT !.payload = Append(Append(@, sample \div 256), sample % 256),
              !.bytes_received = @ + 2]

\* The PAYLOAD case up to the test for a complete payload.
FsmStorePayload(f, sample) ==
    IF SizeSubGe(f.payload_len, f.bytes_received, 2)
    THEN [f EXCEPT !.payload = Append(Append(@, sample \div 256), sample % 256),
                   !.bytes_received = @ + 2]
    ELSE [f EXCEPT !.payload = Append(@, sample \div 256),
                   !.bytes_received = @ + 1]

\* The LENGTH case.
FsmLength(f, sample) ==
    IF f.data_type = IEC_61937_DATA_TYPE_AC3
    THEN [f EXCEPT !.bytes_received = 0, !.payload = <<>>,
                   !.payload_len = sample \div 8,
                   !.state = IEC_61937_STATE_PAYLOAD]
    ELSE [f EXCEPT !.state = IEC_61937_STATE_FIRST_0]

\* Variant: the data type is the whole word.
FsmDataTypeUnmasked(f, sample) ==
    [f EXCEPT !.data_type = sample,
              !.state = IF sample = IEC_61937_DATA_TYPE_EXTENDED
                        THEN IEC_61937_STATE_FIRST_0
                        ELSE IEC_61937_STATE_LENGTH]

\* The DATA_TYPE case.
FsmDataType(f, sample) ==
    LET dt == sample % (IEC_61937_DATA_TYPE_MASK + 1) IN
    [f EXCEPT !.data_type = dt,
              !.state = IF dt = IEC_61937_DATA_TYPE_EXTENDED
                        THEN IEC_61937_STATE_FIRST_0
                        ELSE IEC_61937_STATE_LENGTH]

\* Variant: a further zero after the fourth starts the count again.
FsmSync0Restarting(f, sample) ==
    IF sample = IEC_61937_SYNC_WORD_0
    THEN [f EXCEPT !.state = IEC_61937_STATE_SYNC_1]
    ELSE [f EXCEPT !.state = IEC_61937_STATE_FIRST_0]

\* The SYNC_0 case: a zero is ignored, so that more than four zeros may
\* precede the sync word.
FsmSync0(f, sample) ==
    IF sample = 0 THEN f
    ELSE IF sample = IEC_61937_SYNC_WORD_0
    THEN [f EXCEPT !.state = IEC_61937_STATE_SYNC_1]
    ELSE [f EXCEPT !.state = IEC_61937_STATE_FIRST_0]

\* Variant: lock is declared from the first sync word on.
FsmLockedFromSync1(state) == state >= IEC_61937_STATE_SYNC_1

\* The value iec_61937_fsm_run returns for the state it leaves behind.
FsmLocked(state) == state > IEC_61937_STATE_SYNC_1

\* iec_61937_fsm_run: the new struct, the return value and the packet_cb
\* invocations (none or one) of one call.
iec_61937_fsm_run(f, s16le_sample) ==
    LET sample == bswap16(s16le_sample)
        zero == sample = 0
        st == f.state
        stored == FsmStorePayload(f, sample)
        complete == st = IEC_61937_STATE_PAYLOAD
                    /\ stored.payload_len = stored.bytes_received
        f1 == CASE st = IEC_61937_STATE_FIRST_0 ->
                     IF zero THEN [f EXCEPT !.state = IEC_61937_STATE_SECOND_0] ELSE f
                [] st = IEC_61937_STATE_SECOND_0 ->
                     [f EXCEPT !.state = IF zero THEN IEC_61937_STATE_THIRD_0
                                         ELSE IEC_61937_STATE_FIRST_0]
                [] st = IEC_61937_STATE_THIRD_0 ->
                     [f EXCEPT !.state = IF zero THEN IEC_61937_STATE_FOURTH_0
                                         ELSE IEC_61937_STATE_FIRST_0]
                [] st = IEC_61937_STATE_FOURTH_0 ->
                     [f EXCEPT !.state = IF zero THEN IEC_61937_STATE_SYNC_0
                                         ELSE IEC_61937_STATE_FIRST_0]
                [] st = IEC_61937_STATE_SYNC_0 -> FsmSync0(f, sample)
                [] st = IEC_61937_STATE_SYNC_1 ->
                     [f EXCEPT !.state = IF sample = IEC_61937_SYNC_WORD_1
                                         THEN IEC_61937_STATE_DATA_TYPE
                                         ELSE IEC_61937_STATE_FIRST_0]
                [] st = IEC_61937_STATE_DATA_TYPE -> FsmDataType(f, sample)
                [] st = IEC_61937_STATE_LENGTH -> FsmLength(f, sample)
                [] st = IEC_61937_STATE_PAYLOAD ->
                     IF complete
                     THEN [stored EXCEPT !.state = IEC_61937_STATE_FIRST_0]
                     ELSE stored
    IN  [fsm |-> f1,
         ret |-> FsmLocked(f1.state),
         cbs |-> IF complete
                 THEN <<[data_type |-> stored.data_type,
                         len |-> stored.bytes_received,
                         payload |-> stored.payload]>>
                 ELSE <<>>]

\* The model follows the machine while the payload index is at most MaxBytes.
FsmFollowed(f) == f.bytes_received <= MaxBytes

(***************************************************************************)
(* main.c: process_chunk_iec_61937                                         *)
(***************************************************************************)
\* One pass of the loop body of process_chunk_iec_61937, at byte offset i
\* (0-based); acc is [fsm, ret, cbs] so far.
ProcessChunkSample(acc, chunk, i) ==
    LET sample == chunk[i + 1] + chunk[i + 2] * 256
        r == iec_61937_fsm_run(acc.fsm, sample)
    IN  [fsm |-> r.fsm, ret |-> acc.ret \/ r.ret, cbs |-> acc.cbs \o r.cbs]

\* The passes of the loop for the byte offsets lo, lo + 2, ... below hi, in
\* that order.  The range is halved, and the first half's result is looked at
\* before the second half starts, only to keep the evaluation shallow.
RECURSIVE ProcessChunkRange(_, _, _, _)
ProcessChunkRange(acc, chunk, lo, hi) ==
    IF lo >= hi THEN acc
    ELSE IF hi - lo <= 2 THEN ProcessChunkSample(acc, chunk, lo)
    ELSE LET mid == lo + 2 * ((hi - lo) \div 4)
             left == ProcessChunkRange(acc, chunk, lo, mid)
         IN  IF left.ret \in BOOLEAN
             THEN ProcessChunkRange(left, chunk, mid, hi)
             ELSE left

process_chunk_iec_61937(f, chunk, chunk_size) ==
    ProcessChunkRange([fsm |-> f, ret |-> FALSE, cbs |-> <<>>], chunk, 0, chunk_size)

(***************************************************************************)
(* config.h                                                                *)
(***************************************************************************)
PCM_SINK_BUFFER_TARGET_SAMPLES == 128
PCM_SINK_SAMPLE_BUFFER_SIZE == 2048
PCM_SINK_SAMPLE_BUFFER_SIZE_MASK == PCM_SINK_SAMPLE_BUFFER_SIZE - 1
PCM_SINK_OUTPUT_CHUNK_SIZE == 32
AC3_SINK_OUTPUT_CHUNK_SIZE == 96
AC3_SINK_BUFFER_TARGET_SAMPLES == 384
AC3_SINK_SAMPLE_BUFFER_SIZE == 32768
AC3_SINK_SAMPLE_BUFFER_SIZE_MASK == AC3_SINK_SAMPLE_BUFFER_SIZE - 1
AC3_SINK_NUM_CHANNELS == 6

(***************************************************************************)
(* The sinks.  A sink struct is modelled by the fields the ring buffer and *)
(* the thread life cycle use: thread_run, thread (none / running /         *)
(* joined), pa_inst (TRUE while the playback device is held), write_idx,   *)
(* read_idx, src_data.output_frames_gen and buffer.  Of the sample values  *)
(* buffer keeps one fact: "zeros" while the array is as the memset left    *)
(* it, "samples" once a process call has stored something.  The            *)
(* control-loop history is kept apart, in loop.                            *)
(***************************************************************************)
\* A sink struct inside the zeroed struct iec_60958 (iec_60958_init).
SinkZero ==
    [thread_run |-> FALSE, thread |-> "none", pa_inst |-> FALSE,
     write_idx |-> 0, read_idx |-> 0, output_frames_gen |-> 0,
     buffer |-> "zeros"]

\* "idx++; idx &= MASK" repeated n times, on a uint32_t below size = MASK + 1.
AdvanceIdx(idx, n, size) == (idx + n) % size

\* output_frames_gen values src_process hands back for one 128-frame chunk.
PcmFramesGen == {64, 128}
\* output_frames_gen values src_process hands back for one 1536-sample frame.
Ac3FramesGen == {1024, 1536}
\* What the decoder makes of a packet handed to ac3_sink_process.
Ac3DecodeOutcomes == {"ok", "eagain", "error", "noframe", "channels"}

(***************************************************************************)
(* pcm_sink.c                                                              *)
(***************************************************************************)
pcm_buffer_used(s) ==
    (s.write_idx - s.read_idx + PCM_SINK_SAMPLE_BUFFER_SIZE)
        % PCM_SINK_SAMPLE_BUFFER_SIZE

pcm_buffer_space_avail(s) == PCM_SINK_SAMPLE_BUFFER_SIZE_MASK - pcm_buffer_used(s)

\* Variant: the struct is not cleared before its fields are set.
pcm_sink_open_no_memset(s) ==
    [s EXCEPT !.write_idx = PCM_SINK_BUFFER_TARGET_SAMPLES,
              !.pa_inst = TRUE,
              !.thread_run = TRUE,
              !.thread = "running"]

pcm_sink_open(s) ==
    [SinkZero EXCEPT !.write_idx = PCM_SINK_BUFFER_TARGET_SAMPLES,
                     !.pa_inst = TRUE,
                     !.thread_run = TRUE,
                     !.thread = "running"]

pcm_sink_close(s) ==
    [s EXCEPT !.thread_run = FALSE, !.thread = "joined", !.pa_inst = FALSE]

\* Variant: the chunk is stored whole, whatever the free space.
PcmWillQueueUnchecked(s) == s.output_frames_gen * 2

\* will_queue of pcm_sink_process.
PcmWillQueue(s) ==
    LET can_queue == pcm_buffer_space_avail(s) IN
    IF can_queue < s.output_frames_gen * 2 THEN can_queue
    ELSE s.output_frames_gen * 2

\* The copy loop of pcm_sink_process: the i-th entry is the slot of
\* inst->buffer that tmp_output_buf[i - 1] is stored in.
PcmQueueSlots(s) ==
    [i \in 1..PcmWillQueue(s) |->
        AdvanceIdx(s.write_idx, i - 1, PCM_SINK_SAMPLE_BUFFER_SIZE)]

\* Variant: the copy loop runs over the whole of the resampled chunk.
PcmQueueWhole(s) ==
    [s EXCEPT !.write_idx = AdvanceIdx(@, s.output_frames_gen * 2,
                                       PCM_SINK_SAMPLE_BUFFER_SIZE)]

\* write_idx after the copy loop of pcm_sink_process.
PcmQueue(s) ==
    [s EXCEPT !.write_idx = AdvanceIdx(@, Len(PcmQueueSlots(s)),
                                       PCM_SINK_SAMPLE_BUFFER_SIZE),
              !.buffer = IF PcmQueueSlots(s) = <<>> THEN @ ELSE "samples"]

\* Variant: the copy loop leaves read_idx one sample short of the block.
PcmCopyOutRereading(s) ==
    [s EXCEPT !.read_idx = AdvanceIdx(@, PCM_SINK_OUTPUT_CHUNK_SIZE - 1,
                                      PCM_SINK_SAMPLE_BUFFER_SIZE)]

\* The copy loop of the PCM output_thread.
PcmCopyOut(s) ==
    [s EXCEPT !.read_idx = AdvanceIdx(@, PCM_SINK_OUTPUT_CHUNK_SIZE,
                                      PCM_SINK_SAMPLE_BUFFER_SIZE)]

(***************************************************************************)
(* ac3_sink.c                                                              *)
(***************************************************************************)
ac3_buffer_used(s) ==
    (s.write_idx - s.read_idx + AC3_SINK_SAMPLE_BUFFER_SIZE)
        % AC3_SINK_SAMPLE_BUFFER_SIZE

ac3_buffer_space_avail(s) == AC3_SINK_SAMPLE_BUFFER_SIZE_MASK - ac3_buffer_used(s)

ac3_sink_open(s) ==
    [SinkZero EXCEPT !.write_idx = AC3_SINK_BUFFER_TARGET_SAMPLES,
                     !.pa_inst = TRUE,
                     !.thread_run = TRUE,
                     !.thread = "running"]

ac3_sink_close(s) ==
    [s EXCEPT !.thread_run = FALSE, !.thread = "joined", !.pa_inst = FALSE]

\* The playback channel map of ac3_sink_open (USE_AC3_SURROUND_MAPPING undefined).
Ac3ChannelMap == <<"FL", "FR", "FC", "LFE", "RL", "RR">>

\* The row of tmp_output_buf that the copy loop stores at each of the six
\* successive slots of one output frame.
Ac3SlotSource == <<0, 1, 2, 3, 4, 5>>

\* Variant: a frame that does not fit is cut to the free space, as the PCM
\* sink cuts its chunk.
Ac3WillQueueTruncating(s) ==
    LET can_queue == ac3_buffer_space_avail(s) IN
    IF can_queue < s.output_frames_gen * 6 THEN can_queue
    ELSE Len(Ac3SlotSource) * s.output_frames_gen

\* How many samples ac3_sink_process stores: a whole frame or nothing.
Ac3WillQueue(s) ==
    LET can_queue == ac3_buffer_space_avail(s) IN
    IF can_queue < s.output_frames_gen * 6 THEN 0
    ELSE Len(Ac3SlotSource) * s.output_frames_gen

\* The copy loop of ac3_sink_process.
Ac3Queue(s) ==
    [s EXCEPT !.write_idx = AdvanceIdx(@, Ac3WillQueue(s), AC3_SINK_SAMPLE_BUFFER_SIZE),
              !.buffer = IF Ac3WillQueue(s) = 0 THEN @ ELSE "samples"]

\* Variant: the thread pops the PCM sink's block size.
Ac3CopyOutPcmChunk(s) ==
    [s EXCEPT !.read_idx = AdvanceIdx(@, PCM_SINK_OUTPUT_CHUNK_SIZE,
                                      AC3_SINK_SAMPLE_BUFFER_SIZE)]

\* The copy loop of the AC-3 output_thread.
Ac3CopyOut(s) ==
    [s EXCEPT !.read_idx = AdvanceIdx(@, AC3_SINK_OUTPUT_CHUNK_SIZE,
                                      AC3_SINK_SAMPLE_BUFFER_SIZE)]

(***************************************************************************)
(* calculate_rate_ratio.  The history sizes are defined in no file at      *)
(* hand; they are the 16 entries the written description recommends.  A    *)
(* loop gain g is held as g.num * 10^-g.exp10.  The sum of the history is  *)
(* kept in loop.sum; the double accum is sum / HIST_SIZE, without error.   *)
(* The returned double is computed as IEEE 754 binary64 computes it, each  *)
(* of the two operations of (mult * accum) + 1.0 rounded to nearest, ties  *)
(* to even.                                                                *)
(***************************************************************************)
PCM_SINK_BUFFER_HIST_SIZE == 16
AC3_SINK_BUFFER_HIST_SIZE == 16
PCM_SINK_LOOP_GAIN == [num |-> 4, exp10 |-> 6]
AC3_SINK_LOOP_GAIN == [num |-> 13334, exp10 |-> 10]

(***************************************************************************)
(* Naturals of up to NLimbs * 15 bits: tuples of NLimbs digits in base     *)
(* LimbBase, the lowest first.                                             *)
(***************************************************************************)
LimbBase == 32768
LimbBits == 15
NLimbs == 8
MantissaBits == 53

RECURSIVE Pow2(_)
Pow2(n) == IF n = 0 THEN 1 ELSE 2 * Pow2(n - 1)

RECURSIVE BigCarry(_, _, _)
BigCarry(f, i, c) ==
    IF i > NLimbs THEN <<>>
    ELSE <<(f[i] + c) % LimbBase>> \o BigCarry(f, i + 1, (f[i] + c) \div LimbBase)

BigOf(n) == BigCarry([i \in 1..NLimbs |-> IF i = 1 THEN n ELSE 0], 1, 0)
BigAdd(a, b) == BigCarry([i \in 1..NLimbs |-> a[i] + b[i]], 1, 0)
\* a - b for a >= b
BigSub(a, b) == BigCarry([i \in 1..NLimbs |-> a[i] - b[i]], 1, 0)
\* a * k for 0 <= k < 2^15
BigMulSmall(a, k) == BigCarry([i \in 1..NLimbs |-> a[i] * k], 1, 0)

RECURSIVE BigMulPow(_, _, _)
BigMulPow(a, k, n) ==
    IF n = 0 THEN a
    ELSE IF n >= 5 THEN BigMulPow(BigMulSmall(a, k * k * k * k * k), k, n - 5)
    ELSE BigMulPow(BigMulSmall(a, k), k, n - 1)
\* a * 5^n
BigMulPow5(a, n) == BigMulPow(a, 5, n)

RECURSIVE BigCmpFrom(_, _, _)
BigCmpFrom(a, b, i) ==
    IF i = 0 THEN 0
    ELSE IF a[i] < b[i] THEN -1
    ELSE IF a[i] > b[i] THEN 1
    ELSE BigCmpFrom(a, b, i - 1)

BigLeq(a, b) == BigCmpFrom(a, b, NLimbs) <= 0

BigLimb(a, j) == IF j >= 1 /\ j <= NLimbs THEN a[j] ELSE 0

\* a div 2^n
BigShr(a, n) ==
    LET q == n \div LimbBits
        r == n % LimbBits
    IN  [i \in 1..NLimbs |->
            (BigLimb(a, i + q) \div Pow2(r))
            + (BigLimb(a, i + q + 1) % Pow2(r)) * Pow2(LimbBits - r)]

\* a * 2^n, for a product below 2^(NLimbs * 15)
BigShl(a, n) ==
    LET q == n \div LimbBits
        r == n % LimbBits
    IN  [i \in 1..NLimbs |->
            ((BigLimb(a, i - q) * Pow2(r)) % LimbBase)
            + (BigLimb(a, i - q - 1) \div Pow2(LimbBits - r))]

\* a * 10^n = a * 5^n * 2^n
BigMulPow10(a, n) == BigShl(BigMulPow5(a, n), n)

RECURSIVE BitLenSmall(_)
BitLenSmall(n) == IF n = 0 THEN 0 ELSE 1 + BitLenSmall(n \div 2)

RECURSIVE BigBitLenFrom(_, _)
BigBitLenFrom(a, i) ==
    IF i = 0 THEN 0
    ELSE IF a[i] # 0 THEN LimbBits * (i - 1) + BitLenSmall(a[i])
    ELSE BigBitLenFrom(a, i - 1)

\* a rounded to the nearest multiple of 2^n, a tie to the even multiple.
BigRoundTo(a, n) ==
    IF n <= 0 THEN a
    ELSE LET q == BigShr(a, n)
             rem == BigSub(a, BigShl(q, n))
             half == BigShl(BigOf(1), n - 1)
             cmp == BigCmpFrom(rem, half, NLimbs)
             up == cmp > 0 \/ (cmp = 0 /\ q[1] % 2 = 1)
         IN  BigAdd(BigShl(IF up THEN BigAdd(q, BigOf(1)) ELSE q, n), BigOf(0))

\* a rounded to MantissaBits significant bits.
BigRoundSig(a) == BigRoundTo(a, BigBitLenFrom(a, NLimbs) - MantissaBits)

(***************************************************************************)
(* The doubles of calculate_rate_ratio.  The double a compiler makes of    *)
(* the decimal constant of a loop gain is mant * 2^-exp2.                  *)
(***************************************************************************)
PcmLoopGainDouble == [mant |-> <<28045, 16747, 7134, 134, 0, 0, 0, 0>>, exp2 |-> 70]
Ac3LoopGainDouble == [mant |-> <<11345, 7140, 31651, 178, 0, 0, 0, 0>>, exp2 |-> 72]

\* d is the double nearest to the decimal g: a mantissa of MantissaBits bits
\* at most half a unit of its last place away from g.
IsDoubleOf(d, g) ==
    LET scaled == BigMulPow10(d.mant, g.exp10)           \* mant * 10^exp10
        exact == BigShl(BigOf(g.num), d.exp2)            \* num * 2^exp2
        diff == IF BigLeq(exact, scaled) THEN BigSub(scaled, exact)
                ELSE BigSub(exact, scaled)
    IN  /\ BigBitLenFrom(d.mant, NLimbs) = MantissaBits
        /\ BigLeq(BigAdd(diff, diff), BigMulPow10(BigOf(1), g.exp10))

HistSize(s) == IF s = "ac3" THEN AC3_SINK_BUFFER_HIST_SIZE ELSE PCM_SINK_BUFFER_HIST_SIZE
Target(s) == IF s = "ac3" THEN AC3_SINK_BUFFER_TARGET_SAMPLES
             ELSE PCM_SINK_BUFFER_TARGET_SAMPLES
RingSize(s) == IF s = "ac3" THEN AC3_SINK_SAMPLE_BUFFER_SIZE
               ELSE PCM_SINK_SAMPLE_BUFFER_SIZE
LoopGain(s) == IF s = "ac3" THEN AC3_SINK_LOOP_GAIN ELSE PCM_SINK_LOOP_GAIN

\* x & m on naturals.
RECURSIVE BitAnd(_, _)
BitAnd(x, m) ==
    IF x = 0 \/ m = 0 THEN 0
    ELSE (x % 2) * (m % 2) + 2 * BitAnd(x \div 2, m \div 2)

\* The conversion of a double holding the fraction a / b to int32_t: towards 0.
TruncDiv(a, b) == IF a >= 0 THEN a \div b ELSE -((-a) \div b)

RECURSIVE SumTo(_, _)
SumTo(h, n) == IF n = 0 THEN 0 ELSE h[n - 1] + SumTo(h, n - 1)

LoopGainDouble(s) == IF s = "ac3" THEN Ac3LoopGainDouble ELSE PcmLoopGainDouble

\* log2 of HIST_SIZE: the division accum /= HIST_SIZE moves the exponent.
RECURSIVE Log2(_)
Log2(n) == IF n <= 1 THEN 0 ELSE 1 + Log2(n \div 2)

\* The unit the returned ratios are held in is 2^-RatioExp2(s).
RatioExp2(s) == LoopGainDouble(s).exp2 + Log2(HistSize(s))

\* (mult * accum) + 1.0 for accum = sum / HIST_SIZE: the double returned, as
\* the sign and the size of ratio - 1 in units of 2^-RatioExp2(s).
RatioDouble(s, sum) ==
    LET E == RatioExp2(s)
        one == BigShl(BigOf(1), E)
        mag == IF sum < 0 THEN -sum ELSE sum
        \* mult * accum: |sum| < 2^15 for both sinks
        prod == BigRoundSig(BigMulSmall(LoopGainDouble(s).mant, mag))
        \* ... + 1.0: a result in [1, 2) has 52 bits after the point, a result
        \* in [1/2, 1) has 53
        res == IF sum < 0 /\ BigBitLenFrom(prod, NLimbs) > 0
               THEN BigRoundTo(BigSub(one, prod), E - MantissaBits)
               ELSE BigRoundTo(BigAdd(one, prod), E - MantissaBits + 1)
    IN  IF BigLeq(one, res) THEN [neg |-> FALSE, mag |-> BigSub(res, one)]
        ELSE [neg |-> TRUE, mag |-> BigSub(one, res)]

\* RatioDouble, computed once for the sums k * T, k = -HIST_SIZE .. HIST_SIZE
\* (the sums of the histories whose entries are each -T, 0 or T).
RECURSIVE RatioSeq(_, _)
RatioSeq(s, k) ==
    IF k > HistSize(s) THEN <<>>
    ELSE <<RatioDouble(s, k * Target(s))>> \o RatioSeq(s, k + 1)

RatioTable ==
    [pcm |-> RatioSeq("pcm", -HistSize("pcm")), ac3 |-> RatioSeq("ac3", -HistSize("ac3"))]

RatioOf(s, sum) ==
    IF sum % Target(s) = 0 /\ s \in {"pcm", "ac3"}
    THEN RatioTable[s][(sum \div Target(s)) + HistSize(s) + 1]
    ELSE RatioDouble(s, sum)

\* The control-loop fields of a sink struct after the memset of *_sink_open;
\* ratio is the value last returned (none yet: 1.0).
LoopZero(s) ==
    [sink |-> s, history |-> [i \in 0..(HistSize(s) - 1) |-> 0],
     histidx |-> 0, average |-> 0, sum |-> 0,
     ratio |-> [neg |-> FALSE, mag |-> BigOf(0)]]

\* Variant: the offset is stored as it is.
calculate_rate_ratio_unclamped(l, used) ==
    LET hist == [l.history EXCEPT ![l.histidx] = Target(l.sink) - used]
        accum == SumTo(hist, HistSize(l.sink))
    IN  [l EXCEPT !.history = hist,
                  !.histidx = BitAnd(l.histidx + 1, HistSize(l.sink) - 1),
                  !.sum = accum,
                  !.average = TruncDiv(accum, HistSize(l.sink)),
                  !.ratio = RatioOf(l.sink, accum)]

\* Variant: the offset is stored with its sign turned.
calculate_rate_ratio_inverted(l, used) ==
    LET raw == used - Target(l.sink)
        offset == IF raw < -Target(l.sink) THEN -Target(l.sink)
                  ELSE IF raw > Target(l.sink) THEN Target(l.sink)
                  ELSE raw
        hist == [l.history EXCEPT ![l.histidx] = offset]
        accum == SumTo(hist, HistSize(l.sink))
    IN  [l EXCEPT !.history = hist,
                  !.histidx = BitAnd(l.histidx + 1, HistSize(l.sink) - 1),
                  !.sum = accum,
                  !.average = TruncDiv(accum, HistSize(l.sink)),
                  !.ratio = RatioOf(l.sink, accum)]

\* calculate_rate_ratio with buffer_used(inst) = used.
calculate_rate_ratio(l, used) ==
    LET raw == Target(l.sink) - used
        offset == IF raw < -Target(l.sink) THEN -Target(l.sink)
                  ELSE IF raw > Target(l.sink) THEN Target(l.sink)
                  ELSE raw
        hist == [l.history EXCEPT ![l.histidx] = offset]
        accum == SumTo(hist, HistSize(l.sink))
    IN  [l EXCEPT !.history = hist,
                  !.histidx = BitAnd(l.histidx + 1, HistSize(l.sink) - 1),
                  !.sum = accum,
                  !.average = TruncDiv(accum, HistSize(l.sink)),
                  !.ratio = RatioOf(l.sink, accum)]

\* The surroundings of the PCM sink before it is opened: no chunk processed,
\* the converter's phase and ratio, the room in the playback buffer.
DriftZero ==
    [chunks |-> 0, src_acc |-> 0, src_sum |-> 0, room |-> 0, playing |-> FALSE,
     fill_seen |-> 0, dropped |-> FALSE, steady_sum |-> 0]

(***************************************************************************)
(* Initial values shared by the specifications                             *)
(***************************************************************************)
\* No call of iec_61937_fsm_run observed yet.
ProbeZero ==
    [called |-> FALSE, sample |-> 0, before |-> iec_61937_fsm_init,
     start |-> IEC_61937_STATE_FIRST_0, zeros |-> 0]

FsmInit0 ==
    /\ fsm = iec_61937_fsm_init
    /\ ret = FALSE
    /\ cb_log = <<>>
    /\ bursts = <<>>
    /\ stream = <<>>
    /\ probe = ProbeZero

\* iec_60958_init: memset 0, state UNKNOWN.
ArbInit0 ==
    /\ arb = [state |-> "UNKNOWN", non_61937_chunks |-> 0]
    /\ chunk_ev = [n |-> 0, all_unlocked |-> TRUE, mode |-> "UNKNOWN",
                   locked |-> FALSE, calls |-> <<>>, fed |-> <<>>,
                   chunks |-> 0, run |-> 0, run_cb |-> FALSE, peak |-> 0]

SinkInit0 ==
    /\ pcm = SinkZero
    /\ ac3 = SinkZero
    /\ sink = "none"
    /\ lock = "none"
    /\ prod_pc = "idle"
    /\ cons_pc = "none"
    /\ last_op = [op |-> "none", n |-> 0, order |-> <<>>]
    /\ queued = 0
    /\ loop = LoopZero("pcm")
    /\ drift = DriftZero

(***************************************************************************)
(* SpecFsm: iec_61937_fsm_run on any sequence of samples                   *)
(***************************************************************************)
\* The 16-bit words of the IEC 61937 stream the samples are drawn from: zero,
\* the sync words, data types (AC-3, extended, another one) and length words
\* (0, 1, 8 and 16 bits; every word is a length when it follows an AC-3 type).
WireWords == {0, IEC_61937_SYNC_WORD_0, IEC_61937_SYNC_WORD_1,
              IEC_61937_DATA_TYPE_AC3, IEC_61937_DATA_TYPE_EXTENDED, 8, 16, 43981}

\* The captured S16LE samples carrying those words.
S16leSamples == {bswap16(w) : w \in WireWords}

InitFsm == FsmInit0 /\ ArbInit0 /\ SinkInit0

FsmStep ==
    /\ FsmFollowed(fsm)
    /\ \E s \in S16leSamples :
          LET r == iec_61937_fsm_run(fsm, s) IN
          /\ fsm' = r.fsm
          /\ ret' = r.ret
          /\ cb_log' = r.cbs
          /\ probe' = [probe EXCEPT !.called = TRUE, !.sample = s, !.before = fsm]
    /\ UNCHANGED <<bursts, stream, arbVars, sinkVars, loopVars>>

NextFsm == FsmStep

SpecFsm == InitFsm /\ [][NextFsm]_vars

(***************************************************************************)
(* SpecPre: one call of iec_61937_fsm_run in each state before the burst   *)
(* header, with each of the 65536 values of the sample.                    *)
(***************************************************************************)
PreHeaderStates == IEC_61937_STATE_FIRST_0..IEC_61937_STATE_SYNC_1
Uint16 == 0..65535

InitPre ==
    /\ \E st \in PreHeaderStates : fsm = [iec_61937_fsm_init EXCEPT !.state = st]
    /\ \E s \in Uint16 : probe = [ProbeZero EXCEPT !.sample = s]
    /\ ret = FALSE
    /\ cb_log = <<>>
    /\ bursts = <<>>
    /\ stream = <<>>
    /\ ArbInit0
    /\ SinkInit0

PreStep ==
    /\ ~probe.called
    /\ LET r == iec_61937_fsm_run(fsm, probe.sample) IN
       /\ fsm' = r.fsm
       /\ ret' = r.ret
       /\ cb_log' = r.cbs
       /\ probe' = [probe EXCEPT !.called = TRUE, !.before = fsm]
    /\ UNCHANGED <<bursts, stream, arbVars, sinkVars, loopVars>>

NextPre == PreStep

SpecPre == InitPre /\ [][NextPre]_vars

(***************************************************************************)
(* SpecPreamble: from each state before the burst header, a run of zero    *)
(* samples, then the two sync words, fed one sample at a time.             *)
(***************************************************************************)
MaxZeros == 8

RECURSIVE Zeros(_)
Zeros(k) == IF k = 0 THEN <<>> ELSE <<0>> \o Zeros(k - 1)

\* The S16LE samples of k zero words and the two sync words.
PreambleSamples(k) ==
    Zeros(k) \o <<bswap16(IEC_61937_SYNC_WORD_0), bswap16(IEC_61937_SYNC_WORD_1)>>

InitPreamble ==
    /\ \E st \in PreHeaderStates, k \in 0..MaxZeros :
          /\ fsm = [iec_61937_fsm_init EXCEPT !.state = st]
          /\ probe = [ProbeZero EXCEPT !.start = st, !.zeros = k]
          /\ stream = PreambleSamples(k)
    /\ ret = FALSE
    /\ cb_log = <<>>
    /\ bursts = <<>>
    /\ ArbInit0
    /\ SinkInit0

PreambleStep ==
    /\ stream # <<>>
    /\ LET r == iec_61937_fsm_run(fsm, Head(stream)) IN
       /\ fsm' = r.fsm
       /\ ret' = r.ret
       /\ cb_log' = r.cbs
       /\ probe' = [probe EXCEPT !.called = TRUE, !.sample = Head(stream),
                                 !.before = fsm]
    /\ stream' = Tail(stream)
    /\ UNCHANGED <<bursts, arbVars, sinkVars, loopVars>>

NextPreamble == PreambleStep

SpecPreamble == InitPreamble /\ [][NextPreamble]_vars

(***************************************************************************)
(* SpecBursts: a stream of well-formed AC-3 bursts through                 *)
(* process_chunk_iec_61937, cut into chunks anywhere                       *)
(***************************************************************************)
PayloadBytes == {0, 171}

RECURSIVE SeqsUpTo(_, _)
SeqsUpTo(S, n) ==
    IF n = 0 THEN {<<>>}
    ELSE LET shorter == SeqsUpTo(S, n - 1) IN
         shorter \cup {Append(q, x) : q \in {p \in shorter : Len(p) = n - 1}, x \in S}

\* The bytes of a capture buffer that carry one 16-bit word of the stream: the
\* word is big-endian on the wire, so its high byte comes first.
WordBytes(w) == <<w \div 256, w % 256>>

WordsBytes(ws) == [k \in 1..(2 * Len(ws)) |-> WordBytes(ws[(k + 1) \div 2])[2 - (k % 2)]]

\* One burst: four zero words, the sync words, data type AC-3, the length in
\* bits, the payload packed high byte first, padded to a whole word.
BurstBytes(p) ==
    WordsBytes(<<0, 0, 0, 0, IEC_61937_SYNC_WORD_0, IEC_61937_SYNC_WORD_1,
                 IEC_61937_DATA_TYPE_AC3, 8 * Len(p)>>)
        \o p \o (IF Len(p) % 2 = 1 THEN <<0>> ELSE <<>>)

RECURSIVE BurstsBytes(_)
BurstsBytes(bs) == IF bs = <<>> THEN <<>> ELSE BurstBytes(Head(bs)) \o BurstsBytes(Tail(bs))

InitBursts ==
    /\ bursts \in SeqsUpTo(SeqsUpTo(PayloadBytes, MaxPayloadLen), MaxBursts) \ {<<>>}
    /\ stream = BurstsBytes(bursts)
    /\ fsm = iec_61937_fsm_init
    /\ ret = FALSE
    /\ cb_log = <<>>
    /\ probe = ProbeZero
    /\ ArbInit0
    /\ SinkInit0

\* The chunk sizes, in samples, the stream's next chunk may have.
ChunkWords == {n \in 1..(Len(stream) \div 2) : n <= MaxChunkWords \/ 2 * n = Len(stream)}

FeedChunk ==
    /\ \E n \in ChunkWords :
          LET r == process_chunk_iec_61937(fsm, SubSeq(stream, 1, 2 * n), 2 * n) IN
          /\ fsm' = r.fsm
          /\ ret' = r.ret
          /\ cb_log' = cb_log \o r.cbs
          /\ stream' = SubSeq(stream, 2 * n + 1, Len(stream))
    /\ UNCHANGED <<bursts, probe, arbVars, sinkVars, loopVars>>

NextBursts == FeedChunk

SpecBursts == InitBursts /\ [][NextBursts]_vars

(***************************************************************************)
(* SpecSinks: one open sink.  The main thread runs *_sink_process and in   *)
(* the end *_sink_close; output_thread runs beside it.  lock is the owner  *)
(* of inst->lock.                                                          *)
(*   prod_pc: idle, crit (lock held, before the copy loop), bcast (lock    *)
(*            released, before pthread_cond_broadcast), closing (lock held *)
(*            in close), join (in pthread_join), free (joined, before the  *)
(*            playback device is flushed and freed), closed                *)
(*   cons_pc: top (before pthread_mutex_lock), check (lock held, at the    *)
(*            wait loop), wait (inside pthread_cond_wait, lock released),  *)
(*            wake (woken, reacquiring the lock), write (in                *)
(*            pa_simple_write), exit                                       *)
(***************************************************************************)
NoOp == [op |-> "none", n |-> 0, order |-> <<>>]

InitSinks ==
    /\ FsmInit0
    /\ ArbInit0
    /\ sink \in {"pcm", "ac3"}
    /\ pcm = IF sink = "pcm" THEN pcm_sink_open(SinkZero) ELSE SinkZero
    /\ ac3 = IF sink = "ac3" THEN ac3_sink_open(SinkZero) ELSE SinkZero
    /\ lock = "none"
    /\ prod_pc = "idle"
    /\ cons_pc = "top"
    /\ last_op = NoOp
    /\ queued = IF sink = "pcm" THEN PCM_SINK_BUFFER_TARGET_SAMPLES
                ELSE AC3_SINK_BUFFER_TARGET_SAMPLES
    /\ loop = LoopZero("pcm")
    /\ drift = DriftZero

\* Variant: the broadcast wakes nobody.
BroadcastNone(pc) == pc

\* pthread_cond_broadcast: a thread inside pthread_cond_wait is woken.
Broadcast(pc) == IF pc = "wait" THEN "wake" ELSE pc

\* pcm_sink_process up to pthread_mutex_lock: the conversion and src_process
\* touch only the producer's own buffers.
PcmProcessLock ==
    /\ sink = "pcm" /\ prod_pc = "idle" /\ lock = "none"
    /\ \E gen \in PcmFramesGen : pcm' = [pcm EXCEPT !.output_frames_gen = gen]
    /\ lock' = "prod"
    /\ prod_pc' = "crit"
    /\ last_op' = NoOp
    /\ UNCHANGED <<fsmVars, arbVars, loopVars, queued, ac3, sink, cons_pc>>

\* pcm_sink_process from the lock to pthread_mutex_unlock.
PcmProcessQueue ==
    /\ sink = "pcm" /\ prod_pc = "crit"
    /\ pcm' = PcmQueue(pcm)
    /\ queued' = queued + PcmWillQueue(pcm)
    /\ last_op' = [op |-> IF PcmWillQueue(pcm) < pcm.output_frames_gen * 2
                          THEN "trunc" ELSE "push",
                   n |-> PcmWillQueue(pcm), order |-> <<>>]
    /\ lock' = "none"
    /\ prod_pc' = "bcast"
    /\ UNCHANGED <<fsmVars, arbVars, loopVars, ac3, sink, cons_pc>>

\* ac3_sink_process up to pthread_mutex_lock, or to an early return.
Ac3ProcessLock ==
    /\ sink = "ac3" /\ prod_pc = "idle" /\ lock = "none"
    /\ \E outcome \in Ac3DecodeOutcomes, gen \in Ac3FramesGen :
          IF outcome = "ok"
          THEN /\ ac3' = [ac3 EXCEPT !.output_frames_gen = gen]
               /\ lock' = "prod"
               /\ prod_pc' = "crit"
               /\ last_op' = NoOp
          ELSE /\ last_op' = [NoOp EXCEPT !.op = outcome]
               /\ UNCHANGED <<ac3, lock, prod_pc>>
    /\ UNCHANGED <<fsmVars, arbVars, loopVars, queued, pcm, sink, cons_pc>>

\* ac3_sink_process from the lock to pthread_mutex_unlock: the frame is
\* dropped (and the function returns) or queued.
Ac3ProcessQueue ==
    /\ sink = "ac3" /\ prod_pc = "crit"
    /\ ac3' = Ac3Queue(ac3)
    /\ queued' = queued + Ac3WillQueue(ac3)
    /\ lock' = "none"
    /\ IF ac3_buffer_space_avail(ac3) < ac3.output_frames_gen * 6
       THEN /\ prod_pc' = "idle"
            /\ last_op' = [NoOp EXCEPT !.op = "drop"]
       ELSE /\ prod_pc' = "bcast"
            /\ last_op' = [op |-> "push", n |-> Ac3WillQueue(ac3),
                           order |-> [k \in 1..Len(Ac3SlotSource) |->
                                         Ac3ChannelMap[Ac3SlotSource[k] + 1]]]
    /\ UNCHANGED <<fsmVars, arbVars, loopVars, pcm, sink, cons_pc>>

\* Variant: *_sink_process returns after the unlock, without a broadcast.
ProcessBroadcastLeftOut ==
    /\ prod_pc = "bcast"
    /\ prod_pc' = "idle"
    /\ UNCHANGED <<fsmVars, arbVars, loopVars, queued, pcm, ac3, sink, lock, last_op, cons_pc>>

\* pthread_cond_broadcast at the end of *_sink_process.
ProcessBroadcast ==
    /\ prod_pc = "bcast"
    /\ cons_pc' = Broadcast(cons_pc)
    /\ prod_pc' = "idle"
    /\ UNCHANGED <<fsmVars, arbVars, loopVars, queued, pcm, ac3, sink, lock, last_op>>

\* *_sink_close: pthread_mutex_lock.
CloseLock ==
    /\ prod_pc = "idle" /\ lock = "none"
    /\ lock' = "prod"
    /\ prod_pc' = "closing"
    /\ last_op' = NoOp
    /\ UNCHANGED <<fsmVars, arbVars, loopVars, queued, pcm, ac3, sink, cons_pc>>

\* *_sink_close: thread_run = false, broadcast, unlock.  last_op.order
\* lists the calls of the close so far.
CloseSignal ==
    /\ prod_pc = "closing"
    /\ pcm' = IF sink = "pcm" THEN [pcm EXCEPT !.thread_run = FALSE] ELSE pcm
    /\ ac3' = IF sink = "ac3" THEN [ac3 EXCEPT !.thread_run = FALSE] ELSE ac3
    /\ cons_pc' = Broadcast(cons_pc)
    /\ lock' = "none"
    /\ prod_pc' = "join"
    /\ last_op' = [op |-> "close", n |-> 0,
                   order |-> <<"thread_run = false", "pthread_cond_broadcast",
                               "pthread_mutex_unlock">>]
    /\ UNCHANGED <<fsmVars, arbVars, loopVars, queued, sink>>

\* *_sink_close: pthread_join returns once the thread has exited.
CloseJoin ==
    /\ prod_pc = "join" /\ cons_pc = "exit"
    /\ pcm' = IF sink = "pcm" THEN [pcm EXCEPT !.thread = "joined"] ELSE pcm
    /\ ac3' = IF sink = "ac3" THEN [ac3 EXCEPT !.thread = "joined"] ELSE ac3
    /\ prod_pc' = "free"
    /\ last_op' = [last_op EXCEPT !.order = Append(@, "pthread_join")]
    /\ UNCHANGED <<fsmVars, arbVars, loopVars, queued, sink, lock, cons_pc>>

\* Variant: the playback device is freed without waiting for the thread.
CloseFreeNoJoin ==
    /\ prod_pc \in {"join", "free"}
    /\ pcm' = IF sink = "pcm" THEN pcm_sink_close(pcm) ELSE pcm
    /\ ac3' = IF sink = "ac3" THEN ac3_sink_close(ac3) ELSE ac3
    /\ prod_pc' = "closed"
    /\ last_op' = [last_op EXCEPT !.order =
                      @ \o <<"pa_simple_flush", "pa_simple_free", "src_delete">>]
    /\ UNCHANGED <<fsmVars, arbVars, loopVars, queued, sink, lock, cons_pc>>

\* *_sink_close after the join: the playback device is flushed and freed and
\* the rate converters are deleted.
CloseFree ==
    /\ prod_pc = "free"
    /\ pcm' = IF sink = "pcm" THEN pcm_sink_close(pcm) ELSE pcm
    /\ ac3' = IF sink = "ac3" THEN ac3_sink_close(ac3) ELSE ac3
    /\ prod_pc' = "closed"
    /\ last_op' = [last_op EXCEPT !.order =
                      @ \o <<"pa_simple_flush", "pa_simple_free", "src_delete">>]
    /\ UNCHANGED <<fsmVars, arbVars, loopVars, queued, sink, lock, cons_pc>>

\* output_thread: pthread_mutex_lock, at the top of the loop or on the way
\* out of pthread_cond_wait.
ConsLock ==
    /\ cons_pc \in {"top", "wake"} /\ lock = "none"
    /\ lock' = "cons"
    /\ cons_pc' = "check"
    /\ UNCHANGED <<fsmVars, arbVars, loopVars, queued, pcm, ac3, sink, prod_pc, last_op>>

\* Variant: the thread goes on copying out while a whole chunk is waiting and
\* looks at thread_run only once there is none.
PcmConsCheckDraining ==
    /\ sink = "pcm" /\ cons_pc = "check"
    /\ lock' = "none"
    /\ IF pcm_buffer_used(pcm) < PCM_SINK_OUTPUT_CHUNK_SIZE
       THEN /\ cons_pc' = IF pcm.thread_run THEN "wait" ELSE "exit"
            /\ UNCHANGED <<pcm, last_op, queued>>
       ELSE /\ pcm' = PcmCopyOut(pcm)
            /\ queued' = queued - PCM_SINK_OUTPUT_CHUNK_SIZE
            /\ cons_pc' = "write"
            /\ UNCHANGED last_op
    /\ UNCHANGED <<fsmVars, arbVars, loopVars, ac3, sink, prod_pc>>

\* The PCM output_thread with the lock held: wait, terminate, or copy out one
\* chunk and unlock.
PcmConsCheck ==
    /\ sink = "pcm" /\ cons_pc = "check"
    /\ lock' = "none"
    /\ IF pcm_buffer_used(pcm) < PCM_SINK_OUTPUT_CHUNK_SIZE /\ pcm.thread_run
       THEN cons_pc' = "wait" /\ UNCHANGED <<pcm, last_op, queued>>
       ELSE IF ~pcm.thread_run
       THEN cons_pc' = "exit" /\ UNCHANGED <<pcm, last_op, queued>>
       ELSE /\ pcm' = PcmCopyOut(pcm)
            /\ queued' = queued - PCM_SINK_OUTPUT_CHUNK_SIZE
            /\ cons_pc' = "write"
            /\ UNCHANGED last_op
    /\ UNCHANGED <<fsmVars, arbVars, loopVars, ac3, sink, prod_pc>>

\* The AC-3 output_thread with the lock held.
Ac3ConsCheck ==
    /\ sink = "ac3" /\ cons_pc = "check"
    /\ lock' = "none"
    /\ IF ac3_buffer_used(ac3) < AC3_SINK_OUTPUT_CHUNK_SIZE /\ ac3.thread_run
       THEN cons_pc' = "wait" /\ UNCHANGED <<ac3, last_op, queued>>
       ELSE IF ~ac3.thread_run
       THEN cons_pc' = "exit" /\ UNCHANGED <<ac3, last_op, queued>>
       ELSE /\ ac3' = Ac3CopyOut(ac3)
            /\ queued' = queued - AC3_SINK_OUTPUT_CHUNK_SIZE
            /\ cons_pc' = "write"
            /\ UNCHANGED last_op
    /\ UNCHANGED <<fsmVars, arbVars, loopVars, pcm, sink, prod_pc>>

\* output_thread: pa_simple_write returns.
ConsWrite ==
    /\ cons_pc = "write"
    /\ cons_pc' = "top"
    /\ UNCHANGED <<fsmVars, arbVars, loopVars, queued, pcm, ac3, sink, lock, prod_pc, last_op>>

\* pthread_cond_wait may return without a broadcast (spurious wakeup).
ConsSpuriousWake ==
    /\ cons_pc = "wait"
    /\ cons_pc' = "wake"
    /\ UNCHANGED <<fsmVars, arbVars, loopVars, queued, pcm, ac3, sink, lock, prod_pc, last_op>>

NextSinks ==
    \/ PcmProcessLock
    \/ PcmProcessQueue
    \/ Ac3ProcessLock
    \/ Ac3ProcessQueue
    \/ ProcessBroadcast
    \/ CloseLock
    \/ CloseSignal
    \/ CloseJoin
    \/ CloseFree
    \/ ConsLock
    \/ PcmConsCheck
    \/ Ac3ConsCheck
    \/ ConsWrite
    \/ ConsSpuriousWake

SpecSinks == InitSinks /\ [][NextSinks]_vars

\* Scheduling: a thread that can run is run in the end.  pa_simple_write
\* returns, a free mutex is handed to the thread asking for it, and the main
\* thread goes on inside a close it has begun.  Nothing is assumed about
\* spurious wakeups or about when the main thread calls *_sink_process or
\* *_sink_close.
FairSinks ==
    /\ WF_vars(ConsLock)
    /\ WF_vars(PcmConsCheck)
    /\ WF_vars(Ac3ConsCheck)
    /\ WF_vars(ConsWrite)
    /\ WF_vars(CloseSignal)
    /\ WF_vars(CloseJoin)
    /\ WF_vars(CloseFree)

SpecSinksLive == SpecSinks /\ FairSinks

\* The main thread's next step inside a *_sink_process or *_sink_close that
\* holds or has just released the mutex; prod_pc enables one of them at most.
MainInCall ==
    \/ PcmProcessQueue
    \/ Ac3ProcessQueue
    \/ ProcessBroadcast
    \/ CloseSignal

\* output_thread's next step with the mutex held or inside pa_simple_write;
\* cons_pc enables one of them at most.
WorkerPastLock ==
    \/ PcmConsCheck
    \/ Ac3ConsCheck
    \/ ConsWrite

\* Scheduling for the wakeup of output_thread: the main thread goes on inside
\* a call it has begun (the copy loop ends, the broadcast after the unlock is
\* issued), output_thread goes on once it has the mutex, pa_simple_write
\* returns, and a thread that asks for the mutex while it is free again and
\* again gets it in the end.  Nothing is assumed about spurious wakeups or
\* about when the main thread calls *_sink_process or *_sink_close.
FairWake ==
    /\ SF_vars(ConsLock)
    /\ WF_vars(MainInCall)
    /\ WF_vars(WorkerPastLock)

SpecSinksWake == SpecSinks /\ FairWake

(***************************************************************************)
(* Spec: the mode arbiter, one input chunk per step.  The sink records     *)
(* carry the sinks' life cycle here (open, close, the worker thread); the  *)
(* ring buffer of an open sink moves under SpecSinks.                      *)
(***************************************************************************)
\* A capture buffer of ChunkSamples samples: the words ws, then the word fill
\* up to the end.
ChunkOf(ws, fill) == WordsBytes(ws \o [k \in 1..(ChunkSamples - Len(ws)) |-> fill])

\* Four zero words and the two sync words.
Preamble == <<0, 0, 0, 0, IEC_61937_SYNC_WORD_0, IEC_61937_SYNC_WORD_1>>

\* A PCM sample value that is no sync word (as a length word: 17 bits).
PcmWord == 17

\* The input chunks: silence; PCM content; the burst 0x0001 0x0008 0xABCD in
\* silence; a burst header with another data type (3) and with the extended
\* data type; PCM content ending in a burst header up to the data type, and
\* up to the length word (16 bits), the rest of the burst being the
\* beginning of the next chunk.
Chunks ==
    { ChunkOf(<<>>, 0),
      ChunkOf(<<>>, PcmWord),
      ChunkOf(Preamble \o <<IEC_61937_DATA_TYPE_AC3, 8, 43981>>, 0),
      ChunkOf(Preamble \o <<3>>, 0),
      ChunkOf(Preamble \o <<IEC_61937_DATA_TYPE_EXTENDED>>, 0),
      ChunkOf([k \in 1..(ChunkSamples - 7) |-> PcmWord]
                  \o Preamble \o <<IEC_61937_DATA_TYPE_AC3>>, 0),
      ChunkOf([k \in 1..(ChunkSamples - 8) |-> PcmWord]
                  \o Preamble \o <<IEC_61937_DATA_TYPE_AC3, 16>>, 0) }

\* Variant: the handler does not look at the arbiter's state.
PacketHandlerAnyState(state, cbs) ==
    SelectSeq(cbs, LAMBDA cb : cb.data_type = IEC_61937_DATA_TYPE_AC3)

\* Variant: the handler discards bursts only in UNKNOWN.
PacketHandlerPcmToo(state, cbs) ==
    IF state = "UNKNOWN" THEN <<>>
    ELSE SelectSeq(cbs, LAMBDA cb : cb.data_type = IEC_61937_DATA_TYPE_AC3)

\* iec_61937_packet_handler: the payloads of the callbacks cbs that reach
\* ac3_sink_process when the arbiter is in state.
iec_61937_packet_handler(state, cbs) ==
    IF state # "61937" THEN <<>>
    ELSE SelectSeq(cbs, LAMBDA cb : cb.data_type = IEC_61937_DATA_TYPE_AC3)

\* The three cases of iec_60958_process, given locked, the value of
\* process_chunk_iec_61937: the new arb, pcm and ac3 and the sink calls made.
\* Variant: the window is compared with > instead of >=.
ArbUnknownOffByOne(a, p, c, locked) ==
    IF locked
    THEN [arb |-> [state |-> "61937", non_61937_chunks |-> 0],
          pcm |-> p, ac3 |-> ac3_sink_open(c), calls |-> <<"ac3_sink_open">>]
    ELSE IF a.non_61937_chunks + 1 > IEC_61937_DETECTION_WINDOW
    THEN [arb |-> [state |-> "PCM", non_61937_chunks |-> a.non_61937_chunks + 1],
          pcm |-> pcm_sink_open(p), ac3 |-> c, calls |-> <<"pcm_sink_open">>]
    ELSE [arb |-> [a EXCEPT !.non_61937_chunks = @ + 1],
          pcm |-> p, ac3 |-> c, calls |-> <<>>]

\* Variant: when the window runs out the PCM sink is opened and the state
\* is left as it is.
ArbUnknownKeepState(a, p, c, locked) ==
    IF locked
    THEN [arb |-> [state |-> "61937", non_61937_chunks |-> 0],
          pcm |-> p, ac3 |-> ac3_sink_open(c), calls |-> <<"ac3_sink_open">>]
    ELSE IF a.non_61937_chunks + 1 >= IEC_61937_DETECTION_WINDOW
    THEN [arb |-> [a EXCEPT !.non_61937_chunks = @ + 1],
          pcm |-> pcm_sink_open(p), ac3 |-> c, calls |-> <<"pcm_sink_open">>]
    ELSE [arb |-> [a EXCEPT !.non_61937_chunks = @ + 1],
          pcm |-> p, ac3 |-> c, calls |-> <<>>]

ArbUnknown(a, p, c, locked) ==
    IF locked
    THEN [arb |-> [state |-> "61937", non_61937_chunks |-> 0],
          pcm |-> p, ac3 |-> ac3_sink_open(c), calls |-> <<"ac3_sink_open">>]
    ELSE IF a.non_61937_chunks + 1 >= IEC_61937_DETECTION_WINDOW
    THEN [arb |-> [state |-> "PCM", non_61937_chunks |-> a.non_61937_chunks + 1],
          pcm |-> pcm_sink_open(p), ac3 |-> c, calls |-> <<"pcm_sink_open">>]
    ELSE [arb |-> [a EXCEPT !.non_61937_chunks = @ + 1],
          pcm |-> p, ac3 |-> c, calls |-> <<>>]

\* Variant: the PCM sink is left open when the AC-3 sink is opened.
ArbPcmNoClose(a, p, c, locked) ==
    IF locked
    THEN [arb |-> [state |-> "61937", non_61937_chunks |-> 0],
          pcm |-> p, ac3 |-> ac3_sink_open(c),
          calls |-> <<"ac3_sink_open">>]
    ELSE [arb |-> a, pcm |-> p, ac3 |-> c, calls |-> <<"pcm_sink_process">>]

\* Variant: non_61937_chunks keeps its value on the switch to 61937.
ArbPcmKeepCount(a, p, c, locked) ==
    IF locked
    THEN [arb |-> [state |-> "61937", non_61937_chunks |-> a.non_61937_chunks],
          pcm |-> pcm_sink_close(p), ac3 |-> ac3_sink_open(c),
          calls |-> <<"pcm_sink_close", "ac3_sink_open">>]
    ELSE [arb |-> a, pcm |-> p, ac3 |-> c, calls |-> <<"pcm_sink_process">>]

\* Variant: the chunk is handed to the PCM sink before the lock is looked at.
ArbPcmForwardFirst(a, p, c, locked) ==
    IF locked
    THEN [arb |-> [state |-> "61937", non_61937_chunks |-> 0],
          pcm |-> pcm_sink_close(p), ac3 |-> ac3_sink_open(c),
          calls |-> <<"pcm_sink_process", "pcm_sink_close", "ac3_sink_open">>]
    ELSE [arb |-> a, pcm |-> p, ac3 |-> c, calls |-> <<"pcm_sink_process">>]

\* The PCM case of iec_60958_process, after process_chunk_iec_61937.
ArbPcm(a, p, c, locked) ==
    IF locked
    THEN [arb |-> [state |-> "61937", non_61937_chunks |-> 0],
          pcm |-> pcm_sink_close(p), ac3 |-> ac3_sink_open(c),
          calls |-> <<"pcm_sink_close", "ac3_sink_open">>]
    ELSE [arb |-> a, pcm |-> p, ac3 |-> c, calls |-> <<"pcm_sink_process">>]

\* Variant: the PCM sink is opened before the AC-3 sink is closed.
Arb61937OpenFirst(a, p, c, locked) ==
    IF locked
    THEN [arb |-> [a EXCEPT !.non_61937_chunks = 0],
          pcm |-> p, ac3 |-> c, calls |-> <<>>]
    ELSE IF a.non_61937_chunks + 1 >= IEC_61937_DETECTION_WINDOW
    THEN [arb |-> [state |-> "PCM", non_61937_chunks |-> a.non_61937_chunks + 1],
          pcm |-> pcm_sink_open(p), ac3 |-> ac3_sink_close(c),
          calls |-> <<"pcm_sink_open", "ac3_sink_close">>]
    ELSE [arb |-> [a EXCEPT !.non_61937_chunks = @ + 1],
          pcm |-> p, ac3 |-> c, calls |-> <<>>]

\* Variant: a locked chunk leaves non_61937_chunks as it is.
Arb61937NoReset(a, p, c, locked) ==
    IF locked
    THEN [arb |-> a, pcm |-> p, ac3 |-> c, calls |-> <<>>]
    ELSE IF a.non_61937_chunks + 1 >= IEC_61937_DETECTION_WINDOW
    THEN [arb |-> [state |-> "PCM", non_61937_chunks |-> a.non_61937_chunks + 1],
          pcm |-> pcm_sink_open(p), ac3 |-> ac3_sink_close(c),
          calls |-> <<"ac3_sink_close", "pcm_sink_open">>]
    ELSE [arb |-> [a EXCEPT !.non_61937_chunks = @ + 1],
          pcm |-> p, ac3 |-> c, calls |-> <<>>]

Arb61937(a, p, c, locked) ==
    IF locked
    THEN [arb |-> [a EXCEPT !.non_61937_chunks = 0],
          pcm |-> p, ac3 |-> c, calls |-> <<>>]
    ELSE IF a.non_61937_chunks + 1 >= IEC_61937_DETECTION_WINDOW
    THEN [arb |-> [state |-> "PCM", non_61937_chunks |-> a.non_61937_chunks + 1],
          pcm |-> pcm_sink_open(p), ac3 |-> ac3_sink_close(c),
          calls |-> <<"ac3_sink_close", "pcm_sink_open">>]
    ELSE [arb |-> [a EXCEPT !.non_61937_chunks = @ + 1],
          pcm |-> p, ac3 |-> c, calls |-> <<>>]

\* A counter of chunks that stops at limit.
CountUpTo(c, limit) == IF c >= limit THEN limit ELSE c + 1

\* The playback devices held by the two sinks.
DevicesHeld(p, c) == (IF p.pa_inst THEN 1 ELSE 0) + (IF c.pa_inst THEN 1 ELSE 0)

\* One sink call of iec_60958_process applied to st = [pcm, ac3, peak]; peak
\* follows the number of playback devices held.
SinkCall(st, call) ==
    LET p == CASE call = "pcm_sink_open" -> pcm_sink_open(st.pcm)
               [] call = "pcm_sink_close" -> pcm_sink_close(st.pcm)
               [] OTHER -> st.pcm
        c == CASE call = "ac3_sink_open" -> ac3_sink_open(st.ac3)
               [] call = "ac3_sink_close" -> ac3_sink_close(st.ac3)
               [] OTHER -> st.ac3
    IN  [pcm |-> p, ac3 |-> c,
         peak |-> IF DevicesHeld(p, c) > st.peak THEN DevicesHeld(p, c) ELSE st.peak]

\* The sink calls of one iec_60958_process call, made one after the other.
RECURSIVE SinkCalls(_, _)
SinkCalls(st, calls) ==
    IF calls = <<>> THEN st
    ELSE SinkCalls(SinkCall(st, Head(calls)), Tail(calls))

Init == FsmInit0 /\ ArbInit0 /\ SinkInit0

\* iec_60958_process on the chunk given.
Iec60958ProcessChunk(chunk) ==
    LET r == process_chunk_iec_61937(fsm, chunk, Len(chunk))
        fed == iec_61937_packet_handler(arb.state, r.cbs)
        out == CASE arb.state = "UNKNOWN" -> ArbUnknown(arb, pcm, ac3, r.ret)
                 [] arb.state = "PCM" -> ArbPcm(arb, pcm, ac3, r.ret)
                 [] arb.state = "61937" -> Arb61937(arb, pcm, ac3, r.ret)
    IN  /\ fsm' = r.fsm
        /\ ret' = r.ret
        /\ cb_log' = r.cbs
        /\ arb' = out.arb
        /\ pcm' = out.pcm
        /\ ac3' = out.ac3
        /\ chunk_ev' =
              [n |-> IF ~chunk_ev.all_unlocked \/ r.ret THEN 0
                     ELSE IF chunk_ev.n > IEC_61937_DETECTION_WINDOW
                     THEN chunk_ev.n ELSE chunk_ev.n + 1,
               all_unlocked |-> chunk_ev.all_unlocked /\ ~r.ret,
               mode |-> arb.state,
               locked |-> r.ret,
               calls |-> [k \in 1..Len(fed) |-> "ac3_sink_process"] \o out.calls,
               fed |-> [k \in 1..Len(fed) |-> fed[k].payload],
               chunks |-> CountUpTo(chunk_ev.chunks, 2),
               run |-> IF r.ret THEN 0
                       ELSE CountUpTo(chunk_ev.run, IEC_61937_DETECTION_WINDOW + 1),
               run_cb |-> ~r.ret /\ (chunk_ev.run_cb \/ r.cbs # <<>>),
               peak |-> SinkCalls([pcm |-> pcm, ac3 |-> ac3,
                                   peak |-> DevicesHeld(pcm, ac3)], out.calls).peak]
        /\ UNCHANGED <<bursts, stream, sink, lock, prod_pc, cons_pc, last_op, queued, loopVars>>

\* iec_60958_process on one chunk read by main.
Iec60958Process ==
    /\ fsm.bytes_received <= fsm.payload_len + MaxOverrun
    /\ \E chunk \in Chunks : Iec60958ProcessChunk(chunk)
    /\ UNCHANGED probe

Next == Iec60958Process

Spec == Init /\ [][Next]_vars

(***************************************************************************)
(* SpecSilence: the arbiter as under Spec, until, in mode 61937, the input *)
(* turns to digital silence; from then on every chunk is all zero.         *)
(* probe.zeros counts the silent chunks processed.  The machine is         *)
(* followed through them wherever its payload index goes.                  *)
(***************************************************************************)
MaxSilentChunks == 66

\* iec_60958_process on a chunk of silence, in mode 61937.
SilentChunkProcess ==
    /\ arb.state = "61937"
    /\ probe.zeros < MaxSilentChunks
    /\ Iec60958ProcessChunk(ChunkOf(<<>>, 0))
    /\ probe' = [probe EXCEPT !.zeros = @ + 1]

\* A chunk of any kind while the silence has not begun.
BeforeSilenceProcess ==
    /\ probe.zeros = 0
    /\ Iec60958Process

NextSilence ==
    \/ BeforeSilenceProcess
    \/ SilentChunkProcess

SpecSilence == Init /\ [][NextSilence]_vars

(***************************************************************************)
(* SpecType: the arbiter fed, besides the chunks of Spec, a chunk that     *)
(* ends in four zeros and the first sync word, and chunks that hold four   *)
(* zeros, the two sync words and a data type word other than AC-3.  For    *)
(* the latter probe records the data type word and the machine as the      *)
(* chunk found it.                                                         *)
(***************************************************************************)

\* iec_60958_process on a chunk with a burst header of another data type.
TypeChunkProcess ==
    /\ fsm.bytes_received <= fsm.payload_len + MaxOverrun
    /\ \E w \in {3, IEC_61937_DATA_TYPE_EXTENDED} :
          /\ Iec60958ProcessChunk(ChunkOf(Preamble \o <<w>>, 0))
          /\ probe' = [ProbeZero EXCEPT !.called = TRUE, !.sample = w, !.before = fsm]

\* iec_60958_process on any other chunk.
OtherChunkProcess ==
    /\ fsm.bytes_received <= fsm.payload_len + MaxOverrun
    /\ \E chunk \in Chunks \cup
                    {ChunkOf([k \in 1..(ChunkSamples - 5) |-> PcmWord]
                                 \o <<0, 0, 0, 0, IEC_61937_SYNC_WORD_0>>, 0)} :
          Iec60958ProcessChunk(chunk)
    /\ probe' = ProbeZero

NextType ==
    \/ TypeChunkProcess
    \/ OtherChunkProcess

SpecType == Init /\ [][NextType]_vars

(***************************************************************************)
(* SpecLoop: calculate_rate_ratio called again and again on one sink, with *)
(* any ring fill between empty and full at each call.                      *)
(***************************************************************************)
\* The fills the loop is given: the empty and the full ring.
LoopFills(s) == {0, RingSize(s) - 1}

InitLoop ==
    /\ FsmInit0
    /\ ArbInit0
    /\ pcm = SinkZero
    /\ ac3 = SinkZero
    /\ sink \in {"pcm", "ac3"}
    /\ lock = "none"
    /\ prod_pc = "idle"
    /\ cons_pc = "none"
    /\ last_op = NoOp
    /\ queued = 0
    /\ loop = LoopZero(sink)
    /\ IsDoubleOf(LoopGainDouble(sink), LoopGain(sink))
    /\ drift = DriftZero

LoopStep ==
    /\ \E used \in LoopFills(loop.sink) : loop' = calculate_rate_ratio(loop, used)
    /\ UNCHANGED <<fsmVars, arbVars, sinkVars, drift>>

NextLoop == LoopStep

SpecLoop == InitLoop /\ [][NextLoop]_vars

(***************************************************************************)
(* SpecDrift: the PCM sink between a capture clock and a playback clock.   *)
(* The converter and the playback device are outside the program; they are *)
(* taken to behave as follows.                                             *)
(*  - The capture side delivers SkewDen samples in the time the playback   *)
(*    side plays SkewNum of them.                                          *)
(*  - src_process turns the 128 input frames of a chunk into 128 * ratio   *)
(*    output frames, the fraction carried to the next call, with the ratio *)
(*    stored in src_data.src_ratio by the call before.                     *)
(*  - The playback buffer holds PCM_SINK_PA_BUFFER_SIZE bytes; playback    *)
(*    starts when it is full (prebuf) and stops when it runs empty;        *)
(*    pa_simple_write returns when the block is in the buffer.             *)
(*  - output_thread is fast: between two chunks it moves every block it    *)
(*    can.                                                                 *)
(* Time is counted in chunks; room is the free space of the playback       *)
(* buffer in units of 1 / SkewDen sample.                                  *)
(***************************************************************************)
SkewNum == 2000
SkewDen == 2001
PCM_SINK_PA_BUFFER_SIZE == 2048
MaxDriftChunks == 3750
SteadyChunks == 3000

\* Frames and samples of one input chunk, samples of the playback buffer.
InputFrames == INPUT_CHUNK_SIZE \div 4
InputSamples == INPUT_CHUNK_SIZE \div 2
PaBufferSamples == PCM_SINK_PA_BUFFER_SIZE \div 4

RECURSIVE Pow10(_)
Pow10(n) == IF n = 0 THEN 1 ELSE 10 * Pow10(n - 1)

\* InputFrames * ratio = InputFrames + sum / SrcUnit frames, for
\* ratio = 1 + gain * sum / HIST_SIZE.
SrcUnit ==
    (Pow10(PCM_SINK_LOOP_GAIN.exp10) * PCM_SINK_BUFFER_HIST_SIZE)
        \div (PCM_SINK_LOOP_GAIN.num * InputFrames)

\* The converter's phase when the sink is opened.
SrcPhases == {0, SrcUnit \div 2, SrcUnit - 1}

BlockRoom == PCM_SINK_OUTPUT_CHUNK_SIZE * SkewDen

InitDrift ==
    /\ FsmInit0
    /\ ArbInit0
    /\ sink = "pcm"
    /\ pcm = pcm_sink_open(SinkZero)
    /\ ac3 = SinkZero
    /\ lock = "none"
    /\ prod_pc = "idle"
    /\ cons_pc = "top"
    /\ last_op = NoOp
    /\ queued = PCM_SINK_BUFFER_TARGET_SAMPLES
    /\ loop = LoopZero("pcm")
    /\ \E ph \in SrcPhases :
          drift = [DriftZero EXCEPT !.src_acc = ph, !.room = PaBufferSamples * SkewDen]

\* output_thread can move a block: the ring holds one and pa_simple_write
\* would not block.
CanConsume ==
    /\ pcm_buffer_used(pcm) >= PCM_SINK_OUTPUT_CHUNK_SIZE
    /\ drift.room >= BlockRoom

\* One round of output_thread: a block copied out and written.
DriftConsume ==
    /\ CanConsume
    /\ pcm' = PcmCopyOut(pcm)
    /\ queued' = queued - PCM_SINK_OUTPUT_CHUNK_SIZE
    /\ drift' = [drift EXCEPT !.room = @ - BlockRoom,
                              !.playing = @ \/ (drift.room - BlockRoom < BlockRoom)]
    /\ UNCHANGED <<fsmVars, arbVars, ac3, sink, lock, prod_pc, cons_pc, last_op, loop>>

\* pcm_sink_process for one chunk, and the time to the next chunk.
DriftProcess ==
    /\ ~CanConsume
    /\ drift.chunks < MaxDriftChunks
    /\ LET acc == drift.src_acc + InputFrames * SrcUnit + drift.src_sum
           gen == acc \div SrcUnit
           s == [pcm EXCEPT !.output_frames_gen = gen]
           used == pcm_buffer_used(pcm)
           l == calculate_rate_ratio(loop, used)
           played == drift.room + InputSamples * SkewNum
           empty == PaBufferSamples * SkewDen
       IN  /\ loop' = l
           /\ pcm' = PcmQueue(s)
           /\ queued' = queued + PcmWillQueue(s)
           /\ drift' = [chunks |-> drift.chunks + 1,
                        src_acc |-> acc % SrcUnit,
                        src_sum |-> l.sum,
                        room |-> IF ~drift.playing THEN drift.room
                                 ELSE IF played >= empty THEN empty ELSE played,
                        playing |-> drift.playing /\ played < empty,
                        fill_seen |-> used,
                        dropped |-> PcmWillQueue(s) < gen * 2,
                        steady_sum |-> IF drift.chunks >= SteadyChunks
                                       THEN drift.steady_sum + l.sum ELSE 0]
    /\ UNCHANGED <<fsmVars, arbVars, ac3, sink, lock, prod_pc, cons_pc, last_op>>

NextDrift == DriftConsume \/ DriftProcess

SpecDrift == InitDrift /\ [][NextDrift]_vars

(***************************************************************************)
(* SpecCalls: the sinks as the main thread drives them, call by call.  A   *)
(* sink is opened, *_sink_process is called on it, output_thread copies    *)
(* blocks out, the sink is closed and a sink is opened again.  A call of   *)
(* *_sink_process is one step (what it does before pthread_mutex_lock      *)
(* touches the caller's own buffers and the converters only).  last_op     *)
(* describes the last step: op, n (samples stored), opens, calls and pops  *)
(* (counts, the last two since the open), src_ratios (src_data.src_ratio   *)
(* at each src_process call of the step), used (buffer_used read by        *)
(* calculate_rate_ratio) and stale (what the struct held when it was       *)
(* closed, kept until the first step after the next open).                 *)
(***************************************************************************)
MaxOpens == 2
MaxCalls == 3
MaxPops == 1

NoStale == [sink |-> "none", s |-> SinkZero, l |-> LoopZero("pcm")]

CallZero ==
    [op |-> "none", n |-> 0, order |-> <<>>, opens |-> 0, calls |-> 0,
     pops |-> 0, src_ratios |-> <<>>, used |-> 0, stale |-> NoStale]

\* Variant: the new ratio is computed before src_process and used by it.
PcmSinkProcessCallLoopFirst(s, l, gen) ==
    LET l2 == calculate_rate_ratio(l, pcm_buffer_used(s))
        s1 == [s EXCEPT !.output_frames_gen = gen]
    IN  [sink |-> PcmQueue(s1), loop |-> l2,
         op |-> IF PcmWillQueue(s1) < gen * 2 THEN "trunc" ELSE "push",
         n |-> PcmWillQueue(s1),
         src_ratios |-> <<l2.ratio>>,
         used |-> pcm_buffer_used(s)]

\* pcm_sink_process: src_process with the ratio the struct holds, then, with
\* the lock held, calculate_rate_ratio into src_data.src_ratio and the copy
\* loop.  gen is the output_frames_gen src_process hands back.
PcmSinkProcessCall(s, l, gen) ==
    LET src_ratios == <<l.ratio>>
        l2 == calculate_rate_ratio(l, pcm_buffer_used(s))
        s1 == [s EXCEPT !.output_frames_gen = gen]
    IN  [sink |-> PcmQueue(s1), loop |-> l2,
         op |-> IF PcmWillQueue(s1) < gen * 2 THEN "trunc" ELSE "push",
         n |-> PcmWillQueue(s1),
         src_ratios |-> src_ratios,
         used |-> pcm_buffer_used(s)]

\* Variant: calculate_rate_ratio is called before the decoder's answer is
\* looked at.
Ac3SinkProcessCallLoopAlways(s, l, outcome, gen) ==
    LET l2 == calculate_rate_ratio(l, ac3_buffer_used(s))
        s1 == [s EXCEPT !.output_frames_gen = gen]
    IN  IF outcome # "ok"
        THEN [sink |-> s, loop |-> l2, op |-> outcome, n |-> 0,
              src_ratios |-> <<>>, used |-> ac3_buffer_used(s)]
        ELSE [sink |-> Ac3Queue(s1), loop |-> l2,
              op |-> IF Ac3WillQueue(s1) = 0 THEN "drop" ELSE "push",
              n |-> Ac3WillQueue(s1),
              src_ratios |-> [i \in 1..AC3_SINK_NUM_CHANNELS |-> l.ratio],
              used |-> ac3_buffer_used(s)]

\* ac3_sink_process: the early returns on the decoder's answer; else
\* src_process once per channel with the ratio the struct holds, then, with
\* the lock held, calculate_rate_ratio into src_data.src_ratio and the drop
\* of the frame or the copy loop.
Ac3SinkProcessCall(s, l, outcome, gen) ==
    IF outcome # "ok"
    THEN [sink |-> s, loop |-> l, op |-> outcome, n |-> 0,
          src_ratios |-> <<>>, used |-> 0]
    ELSE LET src_ratios == [i \in 1..AC3_SINK_NUM_CHANNELS |-> l.ratio]
             l2 == calculate_rate_ratio(l, ac3_buffer_used(s))
             s1 == [s EXCEPT !.output_frames_gen = gen]
         IN  [sink |-> Ac3Queue(s1), loop |-> l2,
              op |-> IF Ac3WillQueue(s1) = 0 THEN "drop" ELSE "push",
              n |-> Ac3WillQueue(s1),
              src_ratios |-> src_ratios,
              used |-> ac3_buffer_used(s)]

InitCalls ==
    /\ FsmInit0
    /\ ArbInit0
    /\ pcm = SinkZero
    /\ ac3 = SinkZero
    /\ sink = "none"
    /\ lock = "none"
    /\ prod_pc = "idle"
    /\ cons_pc = "none"
    /\ last_op = CallZero
    /\ queued = 0
    /\ loop = LoopZero("pcm")
    /\ drift = DriftZero

\* pcm_sink_open or ac3_sink_open on the struct as the last close left it.
CallsOpen ==
    /\ sink = "none"
    /\ last_op.opens < MaxOpens
    /\ \E s \in {"pcm", "ac3"} :
          /\ sink' = s
          /\ pcm' = IF s = "pcm" THEN pcm_sink_open(pcm) ELSE pcm
          /\ ac3' = IF s = "ac3" THEN ac3_sink_open(ac3) ELSE ac3
          /\ loop' = LoopZero(s)
          /\ queued' = Target(s)
          /\ last_op' = [CallZero EXCEPT !.op = "open",
                                         !.opens = last_op.opens + 1,
                                         !.stale = last_op.stale]
    /\ UNCHANGED <<fsmVars, arbVars, lock, prod_pc, cons_pc, drift>>

CallsPcmProcess ==
    /\ sink = "pcm"
    /\ last_op.calls < MaxCalls
    /\ \E gen \in PcmFramesGen :
          \E r \in {PcmSinkProcessCall(pcm, loop, gen)} :
          /\ pcm' = r.sink
          /\ loop' = r.loop
          /\ queued' = queued + r.n
          /\ last_op' = [last_op EXCEPT !.op = r.op, !.n = r.n,
                                        !.calls = @ + 1,
                                        !.src_ratios = r.src_ratios,
                                        !.used = r.used,
                                        !.stale = NoStale]
    /\ UNCHANGED <<fsmVars, arbVars, ac3, sink, lock, prod_pc, cons_pc, drift>>

CallsAc3Process ==
    /\ sink = "ac3"
    /\ last_op.calls < MaxCalls
    /\ \E outcome \in Ac3DecodeOutcomes, gen \in Ac3FramesGen :
          \E r \in {Ac3SinkProcessCall(ac3, loop, outcome, gen)} :
          /\ ac3' = r.sink
          /\ loop' = r.loop
          /\ queued' = queued + r.n
          /\ last_op' = [last_op EXCEPT !.op = r.op, !.n = r.n,
                                        !.calls = @ + 1,
                                        !.src_ratios = r.src_ratios,
                                        !.used = r.used,
                                        !.stale = NoStale]
    /\ UNCHANGED <<fsmVars, arbVars, pcm, sink, lock, prod_pc, cons_pc, drift>>

\* output_thread copies one block out.
CallsPop ==
    /\ sink \in {"pcm", "ac3"}
    /\ last_op.pops < MaxPops
    /\ IF sink = "pcm"
       THEN /\ pcm_buffer_used(pcm) >= PCM_SINK_OUTPUT_CHUNK_SIZE
            /\ pcm' = PcmCopyOut(pcm)
            /\ queued' = queued - PCM_SINK_OUTPUT_CHUNK_SIZE
            /\ ac3' = ac3
       ELSE /\ ac3_buffer_used(ac3) >= AC3_SINK_OUTPUT_CHUNK_SIZE
            /\ ac3' = Ac3CopyOut(ac3)
            /\ queued' = queued - AC3_SINK_OUTPUT_CHUNK_SIZE
            /\ pcm' = pcm
    /\ last_op' = [last_op EXCEPT !.op = "pop", !.n = 0, !.pops = @ + 1,
                                  !.src_ratios = <<>>, !.stale = NoStale]
    /\ UNCHANGED <<fsmVars, arbVars, sink, lock, prod_pc, cons_pc, loop, drift>>

\* pcm_sink_close or ac3_sink_close: the struct keeps what it held.
CallsClose ==
    /\ sink \in {"pcm", "ac3"}
    /\ pcm' = IF sink = "pcm" THEN pcm_sink_close(pcm) ELSE pcm
    /\ ac3' = IF sink = "ac3" THEN ac3_sink_close(ac3) ELSE ac3
    /\ sink' = "none"
    /\ last_op' = [last_op EXCEPT !.op = "close", !.n = 0, !.src_ratios = <<>>,
                                  !.stale = [sink |-> sink,
                                             s |-> IF sink = "pcm" THEN pcm ELSE ac3,
                                             l |-> loop]]
    /\ UNCHANGED <<fsmVars, arbVars, lock, prod_pc, cons_pc, queued, loop, drift>>

NextCalls ==
    \/ CallsOpen
    \/ CallsPcmProcess
    \/ CallsAc3Process
    \/ CallsPop
    \/ CallsClose

SpecCalls == InitCalls /\ [][NextCalls]_vars

(***************************************************************************)
(* Properties                                                              *)
(***************************************************************************)
\* C1: after every step of iec_61937_fsm_run, on any input,
\* bytes_received <= payload_len <= 65536.
PayloadIndexBounded ==
    /\ fsm.bytes_received <= fsm.payload_len
    /\ fsm.payload_len <= IEC_61937_MAX_BURST_PAYLOAD

\* The fill of a ring of the given size, and its free space (one slot stays
\* vacant), from the indices alone.
RingFill(s, size) == (s.write_idx - s.read_idx + size) % size
RingFree(s, size) == (size - 1) - RingFill(s, size)

\* C2: the PCM ring's write_idx and read_idx are even in every reachable
\* state, also after a push truncated to the free space.
PcmIndicesEven ==
    /\ pcm.write_idx % 2 = 0
    /\ pcm.read_idx % 2 = 0

\* C3, as claimed: the AC-3 ring's write_idx and read_idx are divisible by 6
\* in every reachable state, also after the masked indices wrap around.
Ac3IndicesDivisibleBy6 ==
    /\ ac3.write_idx % AC3_SINK_NUM_CHANNELS = 0
    /\ ac3.read_idx % AC3_SINK_NUM_CHANNELS = 0

\* C3, amended: the number of samples waiting in the AC-3 ring,
\* (write_idx - read_idx) & 32767, is divisible by 6 in every reachable state
\* (whole 6-channel frames only); the indices themselves are even.
Ac3FillDivisibleBy6 ==
    /\ RingFill(ac3, AC3_SINK_SAMPLE_BUFFER_SIZE) % AC3_SINK_NUM_CHANNELS = 0
    /\ ac3.write_idx % 2 = 0
    /\ ac3.read_idx % 2 = 0

\* A reachable state in which the AC-3 write index has wrapped around and is
\* no multiple of 6, with samples waiting.
Ac3WriteIdxWrapped ==
    /\ sink = "ac3"
    /\ ac3.write_idx % AC3_SINK_NUM_CHANNELS # 0
    /\ RingFill(ac3, AC3_SINK_SAMPLE_BUFFER_SIZE) >= AC3_SINK_OUTPUT_CHUNK_SIZE

\* C4: every ac3_sink_process call that reaches the ring either stores the
\* whole frame, 6 * output_frames_gen samples in the order FL, FR, FC, LFE,
\* RL, RR, or, when the free space is smaller, changes nothing; no other step
\* moves write_idx.
Ac3WholeFrameOrNothing ==
    [][(sink = "ac3" /\ ((prod_pc = "crit" /\ prod_pc' # "crit")
                          \/ ac3'.write_idx # ac3.write_idx))
       => /\ prod_pc = "crit"
          /\ IF RingFree(ac3, AC3_SINK_SAMPLE_BUFFER_SIZE) < 6 * ac3.output_frames_gen
             THEN /\ ac3' = ac3
                  /\ last_op' = [op |-> "drop", n |-> 0, order |-> <<>>]
             ELSE /\ ac3' = [ac3 EXCEPT !.write_idx =
                                (@ + 6 * ac3.output_frames_gen)
                                    % AC3_SINK_SAMPLE_BUFFER_SIZE,
                                        !.buffer =
                                IF ac3.output_frames_gen = 0 THEN @ ELSE "samples"]
                  /\ last_op' = [op |-> "push", n |-> 6 * ac3.output_frames_gen,
                                 order |-> <<"FL", "FR", "FC", "LFE", "RL", "RR">>]
      ]_vars

\* A reachable state right after ac3_sink_process dropped a frame for lack of
\* space.
Ac3FrameDropped ==
    /\ sink = "ac3"
    /\ last_op.op = "drop"
    /\ prod_pc = "idle"
    /\ ac3.output_frames_gen > 0
    /\ RingFree(ac3, AC3_SINK_SAMPLE_BUFFER_SIZE) < 6 * ac3.output_frames_gen

\* One step seen from a ring of the given size: write_idx moves only in the
\* producer's critical section and by no more than the free space, read_idx
\* only in the consumer's and by no more than the fill.
RingStepOk(s, t, size) ==
    /\ RingFill(t, size) \in 0..(size - 1)
    /\ t.write_idx # s.write_idx
          => /\ lock = "prod" /\ prod_pc = "crit"
             /\ t.read_idx = s.read_idx
             /\ (t.write_idx - s.write_idx + size) % size <= RingFree(s, size)
             /\ RingFill(t, size) > RingFill(s, size)
    /\ t.read_idx # s.read_idx
          => /\ lock = "cons" /\ cons_pc = "check"
             /\ t.write_idx = s.write_idx
             /\ (t.read_idx - s.read_idx + size) % size <= RingFill(s, size)
             /\ RingFill(t, size) < RingFill(s, size)

\* C5: for both sinks, under every interleaving, the producer never writes
\* more than the free space, the consumer never pops more than the fill,
\* write_idx is changed only by the producer and read_idx only by the
\* consumer, each while holding the sink mutex.
RingDiscipline ==
    [][/\ RingStepOk(pcm, pcm', PCM_SINK_SAMPLE_BUFFER_SIZE)
       /\ RingStepOk(ac3, ac3', AC3_SINK_SAMPLE_BUFFER_SIZE)]_vars

\* A reachable state in which the PCM producer has just filled the ring to
\* the last free slot, dropping the tail of its chunk.
PcmRingFilled ==
    /\ sink = "pcm"
    /\ last_op.op = "trunc"
    /\ RingFill(pcm, PCM_SINK_SAMPLE_BUFFER_SIZE) = PCM_SINK_SAMPLE_BUFFER_SIZE - 1

\* The callback a burst with payload p is to cause.
BurstCallback(p) == [data_type |-> 1, len |-> Len(p), payload |-> p]

\* C6: for every payload, one burst fed from FIRST_0 causes exactly one
\* callback, with data_type 1, the payload's length and bytes, and leaves the
\* machine in FIRST_0.
SingleBurstRoundTrip ==
    (Len(bursts) = 1 /\ stream = <<>>)
        => /\ cb_log = <<BurstCallback(bursts[1])>>
           /\ fsm.state = IEC_61937_STATE_FIRST_0

\* The callbacks so far are those of the first bursts, in order, and those of
\* all the bursts once the stream is read.
DeliveredInOrder ==
    /\ Len(cb_log) <= Len(bursts)
    /\ \A k \in 1..Len(cb_log) : cb_log[k] = BurstCallback(bursts[k])
    /\ stream = <<>> => Len(cb_log) = Len(bursts)

\* C7: a stream of N AC-3 bursts, cut into chunks anywhere, causes exactly N
\* callbacks, the k-th with the k-th burst's payload.
BurstsDeliveredInOrder == DeliveredInOrder

\* The same for streams in which every burst carries at least one payload
\* byte.
NonEmptyBurstsDeliveredInOrder ==
    (\A k \in 1..Len(bursts) : bursts[k] # <<>>) => DeliveredInOrder

\* A reachable state: two bursts, the first with an odd payload length, both
\* delivered.
TwoBurstsDelivered ==
    /\ Len(bursts) = 2
    /\ Len(bursts[1]) = 1
    /\ bursts[2] # <<>>
    /\ stream = <<>>
    /\ Len(cb_log) = 2

\* A sink is open from *_sink_open until *_sink_close: it holds its playback
\* device.
SinkOpen(s) == s.pa_inst

\* C8: at most one sink is open, an open sink's worker thread has been
\* started and not joined, and at most one worker thread exists.
OneSinkOneThread ==
    /\ ~(SinkOpen(pcm) /\ SinkOpen(ac3))
    /\ SinkOpen(pcm) => pcm.thread = "running"
    /\ SinkOpen(ac3) => ac3.thread = "running"
    /\ ~(pcm.thread = "running" /\ ac3.thread = "running")

\* A reachable state: the AC-3 sink open after the PCM sink was open and has
\* been closed.
Ac3OpenAfterPcm ==
    /\ SinkOpen(ac3)
    /\ pcm.thread = "joined"
    /\ arb.state = "61937"

\* C9: while no chunk has been locked, the arbiter is in UNKNOWN with no sink
\* open after each of the first 63 chunks, opens the PCM sink and is in PCM
\* after chunk 64 (and stays so), and the AC-3 sink has never been opened.
QuietStartGoesPcm ==
    chunk_ev.all_unlocked
        => /\ ac3 = SinkZero
           /\ fsm.state <= IEC_61937_STATE_SYNC_1
           /\ chunk_ev.n < IEC_61937_DETECTION_WINDOW
                 => /\ arb.state = "UNKNOWN"
                    /\ arb.non_61937_chunks = chunk_ev.n
                    /\ pcm = SinkZero
           /\ chunk_ev.n = IEC_61937_DETECTION_WINDOW
                 => /\ chunk_ev.mode = "UNKNOWN"
                    /\ chunk_ev.calls = <<"pcm_sink_open">>
           /\ chunk_ev.n >= IEC_61937_DETECTION_WINDOW
                 => /\ arb.state = "PCM"
                    /\ SinkOpen(pcm) /\ pcm.thread = "running"

\* A reachable state: 64 chunks of silence have been read.
SilenceChunk64 ==
    /\ chunk_ev.all_unlocked
    /\ chunk_ev.n = IEC_61937_DETECTION_WINDOW
    /\ fsm.state = IEC_61937_STATE_SYNC_0
    /\ arb.state = "PCM"

\* C10: a locked chunk in mode PCM makes the arbiter, within that call, close
\* the PCM sink, reset non_61937_chunks, enter 61937 and open the AC-3 sink.
PcmLockedSwitches ==
    (chunk_ev.mode = "PCM" /\ chunk_ev.locked)
        => /\ arb = [state |-> "61937", non_61937_chunks |-> 0]
           /\ chunk_ev.calls = <<"pcm_sink_close", "ac3_sink_open">>
           /\ ~SinkOpen(pcm) /\ pcm.thread = "joined"
           /\ SinkOpen(ac3) /\ ac3.thread = "running"

\* A reachable state right after a locked chunk in mode PCM.
PcmChunkLocked ==
    /\ chunk_ev.mode = "PCM"
    /\ chunk_ev.locked

\* C11: in mode 61937 a locked chunk leaves non_61937_chunks at 0 and a
\* non-locked chunk makes it the number of non-locked chunks since the last
\* locked one; the arbiter closes the AC-3 sink, enters PCM and opens the PCM
\* sink on the 64th of them and on no earlier chunk.
Leaves61937After64 ==
    chunk_ev.mode = "61937"
        => /\ chunk_ev.run <= IEC_61937_DETECTION_WINDOW
           /\ chunk_ev.locked
                 => /\ arb = [state |-> "61937", non_61937_chunks |-> 0]
                    /\ chunk_ev.run = 0
           /\ ~chunk_ev.locked => arb.non_61937_chunks = chunk_ev.run
           /\ chunk_ev.run < IEC_61937_DETECTION_WINDOW
                 => /\ arb.state = "61937"
                    /\ SinkOpen(ac3) /\ ~SinkOpen(pcm)
                    /\ \A k \in 1..Len(chunk_ev.calls) :
                          chunk_ev.calls[k] = "ac3_sink_process"
           /\ chunk_ev.run = IEC_61937_DETECTION_WINDOW
                 => /\ arb.state = "PCM"
                    /\ ~SinkOpen(ac3) /\ ac3.thread = "joined"
                    /\ SinkOpen(pcm) /\ pcm.thread = "running"
                    /\ Len(chunk_ev.calls) >= 2
                    /\ SubSeq(chunk_ev.calls, Len(chunk_ev.calls) - 1,
                              Len(chunk_ev.calls))
                          = <<"ac3_sink_close", "pcm_sink_open">>

\* A reachable state: the 64th non-locked chunk in a row in mode 61937.
Chunk64In61937 ==
    /\ chunk_ev.mode = "61937"
    /\ chunk_ev.run = IEC_61937_DETECTION_WINDOW
    /\ arb.state = "PCM"

\* C12: when the arbiter switches to PCM, the packet callback was called
\* during none of the 64 chunks up to and including the one of the switch.
NoBurstInWindowBeforePcm ==
    (chunk_ev.mode # "PCM" /\ arb.state = "PCM")
        => /\ chunk_ev.run = IEC_61937_DETECTION_WINDOW
           /\ ~chunk_ev.run_cb

\* The first chunk has been read and held the one burst with payload 0xAB.
FirstChunkBurst ==
    /\ chunk_ev.chunks = 1
    /\ chunk_ev.mode = "UNKNOWN"
    /\ cb_log = <<BurstCallback(<<171>>)>>

\* C13, as claimed: a first chunk holding the burst 0x0000 x4, 0xF872, 0x4E1F,
\* 0x0001, 0x0008, 0xABCD takes the arbiter to 61937, opens the AC-3 sink and
\* passes the payload <<0xAB>> to ac3_sink_process.
FirstChunkBurstFed ==
    FirstChunkBurst
        => /\ arb.state = "61937"
           /\ SinkOpen(ac3)
           /\ chunk_ev.fed = << <<171>> >>

\* C13, amended: such a first chunk takes the arbiter to 61937 and opens the
\* AC-3 sink, and the burst is discarded: the handler runs while the state is
\* still UNKNOWN, and ac3_sink_process is not called.
FirstChunkBurstDiscarded ==
    FirstChunkBurst
        => /\ arb = [state |-> "61937", non_61937_chunks |-> 0]
           /\ SinkOpen(ac3) /\ ac3.thread = "running"
           /\ chunk_ev.calls = <<"ac3_sink_open">>
           /\ chunk_ev.fed = <<>>

\* A reachable state: the first chunk held that burst.
FirstChunkBurstSeen ==
    /\ FirstChunkBurst
    /\ chunk_ev.locked
    /\ arb.state = "61937"

\* C14: bursts delivered while the arbiter is in UNKNOWN or PCM never reach
\* ac3_sink_process, also on the chunk that switches to 61937;
\* ac3_sink_process is called only in 61937 with the AC-3 sink open and
\* data_type 1, once per such burst; pcm_sink_process is called only in PCM
\* with the PCM sink open.
SinkProcessOnlyWhenOpen ==
    [][LET calls == chunk_ev'.calls
           ac3_calls == SelectSeq(calls, LAMBDA c : c = "ac3_sink_process")
           pcm_calls == SelectSeq(calls, LAMBDA c : c = "pcm_sink_process")
       IN  /\ Len(ac3_calls) = Len(chunk_ev'.fed)
           /\ arb.state # "61937" => chunk_ev'.fed = <<>>
           /\ chunk_ev'.fed # <<>>
                 => /\ arb.state = "61937"
                    /\ SinkOpen(ac3) /\ ac3.thread = "running"
                    /\ Len(chunk_ev'.fed) = Len(cb_log')
                    /\ \A k \in 1..Len(cb_log') :
                          /\ cb_log'[k].data_type = IEC_61937_DATA_TYPE_AC3
                          /\ chunk_ev'.fed[k] = cb_log'[k].payload
           /\ pcm_calls # <<>>
                 => /\ arb.state = "PCM"
                    /\ SinkOpen(pcm) /\ pcm.thread = "running"
      ]_vars

\* A reachable state: in PCM, a chunk held a whole burst, which was
\* discarded, and switched the arbiter to 61937.
BurstDiscardedOnSwitch ==
    /\ chunk_ev.mode = "PCM"
    /\ cb_log # <<>>
    /\ chunk_ev.fed = <<>>
    /\ arb.state = "61937"

\* The sink calls of the last chunk other than *_sink_process.
LifeCycleCalls ==
    SelectSeq(chunk_ev.calls,
              LAMBDA c : c \notin {"ac3_sink_process", "pcm_sink_process"})

\* C17: on a switch PCM -> 61937 or 61937 -> PCM the old sink is closed
\* (thread joined, playback device freed) before the new one is opened; at no
\* moment of any call are two playback devices held.
CloseOldThenOpenNew ==
    /\ chunk_ev.peak <= 1
    /\ DevicesHeld(pcm, ac3) <= 1
    /\ (chunk_ev.mode = "PCM" /\ arb.state = "61937")
          => /\ LifeCycleCalls = <<"pcm_sink_close", "ac3_sink_open">>
             /\ pcm.thread = "joined" /\ ~pcm.pa_inst
             /\ ac3.thread = "running" /\ ac3.pa_inst
    /\ (chunk_ev.mode = "61937" /\ arb.state = "PCM")
          => /\ LifeCycleCalls = <<"ac3_sink_close", "pcm_sink_open">>
             /\ ac3.thread = "joined" /\ ~ac3.pa_inst
             /\ pcm.thread = "running" /\ pcm.pa_inst
    /\ chunk_ev.mode = arb.state => LifeCycleCalls = <<>>

\* A reachable state: the arbiter has just switched from 61937 to PCM after
\* having switched from PCM to 61937 before.
SwitchedBackToPcm ==
    /\ chunk_ev.mode = "61937"
    /\ arb.state = "PCM"
    /\ chunk_ev.peak = 1
    /\ pcm.thread = "running"
    /\ ac3.thread = "joined"

\* C15: a close that has begun returns: from every state in which
\* *_sink_close holds the mutex, whatever the fill and wherever the worker
\* is, the worker exits, the join completes and the close ends.
CloseReturns == (prod_pc = "closing") ~> (prod_pc = "closed")

\* A reachable state: a close has returned with a block or more left in the
\* ring.
ClosedWithSamplesLeft ==
    /\ prod_pc = "closed"
    /\ cons_pc = "exit"
    /\ sink = "ac3"
    /\ RingFill(ac3, AC3_SINK_SAMPLE_BUFFER_SIZE) >= AC3_SINK_OUTPUT_CHUNK_SIZE

\* The open sink's record.
OpenSink == IF sink = "pcm" THEN pcm ELSE ac3

\* C16: in a close the flag is cleared under the mutex, then the broadcast
\* is made, then the thread is joined, then the playback device is flushed
\* and freed and the converters deleted; the worker is never inside
\* pa_simple_write, nor on its way there, once the device is freed.
CloseOrder ==
    /\ prod_pc = "closing" => lock = "prod" /\ OpenSink.thread_run
    /\ prod_pc \in {"join", "free", "closed"} => ~OpenSink.thread_run
    /\ prod_pc = "join"
          => /\ last_op.order = <<"thread_run = false", "pthread_cond_broadcast",
                                  "pthread_mutex_unlock">>
             /\ cons_pc # "wait" \/ OpenSink.thread = "running"
             /\ OpenSink.thread = "running" /\ OpenSink.pa_inst
    /\ prod_pc = "free"
          => /\ last_op.order = <<"thread_run = false", "pthread_cond_broadcast",
                                  "pthread_mutex_unlock", "pthread_join">>
             /\ OpenSink.thread = "joined" /\ OpenSink.pa_inst
             /\ cons_pc = "exit"
    /\ prod_pc = "closed"
          => /\ last_op.order = <<"thread_run = false", "pthread_cond_broadcast",
                                  "pthread_mutex_unlock", "pthread_join",
                                  "pa_simple_flush", "pa_simple_free", "src_delete">>
             /\ OpenSink.thread = "joined" /\ ~OpenSink.pa_inst
    /\ ~OpenSink.pa_inst => cons_pc = "exit"
    /\ cons_pc # "exit" => OpenSink.pa_inst /\ OpenSink.thread = "running"

\* A reachable state: the close is inside pthread_join while the worker is
\* inside pa_simple_write.
JoinWhileWriting ==
    /\ prod_pc = "join"
    /\ cons_pc = "write"

\* C18: the samples handed to the playback device are, in order, the T
\* pre-initialised ones and then the pushed ones.  The k-th sample stored
\* (the pre-initialised ones counted) lies in slot k mod C and the k-th
\* sample copied out is read from slot k mod C; it is the same sample as long
\* as no more than C samples are stored and not yet copied out.  So: the
\* count of those samples, kept without the mask, is the masked difference
\* of the indices, every pop finds a whole block of them, and a push never
\* brings them above C - 1.
FifoKept ==
    /\ queued = RingFill(OpenSink, RingSize(sink))
    /\ queued >= 0
    /\ queued <= RingSize(sink) - 1
    /\ OpenSink.write_idx \in 0..(RingSize(sink) - 1)
    /\ OpenSink.read_idx \in 0..(RingSize(sink) - 1)

\* A reachable state: the producer's index has wrapped around, the samples
\* waiting lie across the end of the array, and the worker has just copied
\* a block out.
PoppedAcrossTheEnd ==
    /\ cons_pc = "write"
    /\ OpenSink.write_idx < OpenSink.read_idx
    /\ queued > 0

\* |x|
Abs(x) == IF x < 0 THEN -x ELSE x

\* The integer part of C19: every history entry lies in [-T, T], histidx in
\* [0, H - 1], and so |sum of the history| <= H * T.
HistoryClamped ==
    /\ DOMAIN loop.history = 0..(HistSize(loop.sink) - 1)
    /\ \A i \in 0..(HistSize(loop.sink) - 1) :
          loop.history[i] \in (-Target(loop.sink))..Target(loop.sink)
    /\ loop.histidx \in 0..(HistSize(loop.sink) - 1)
    /\ loop.sum = SumTo(loop.history, HistSize(loop.sink))
    /\ Abs(loop.sum) <= HistSize(loop.sink) * Target(loop.sink)
    /\ Abs(loop.average) <= Target(loop.sink)

\* |ratio - 1| = mag * 2^-E is compared with G * T = num * T * 10^-x after
\* both are multiplied by 2^E * 5^x.
\* G * T * 2^E * 5^x, and the same with 2^-52 added to G * T:
RatioBound ==
    LET b(s) == BigShl(BigOf(LoopGain(s).num * Target(s)),
                       RatioExp2(s) - LoopGain(s).exp10)
        ulp(s) == BigMulPow5(BigShl(BigOf(1), RatioExp2(s) - MantissaBits + 1),
                             LoopGain(s).exp10)
    IN  [pcm |-> [exact |-> BigAdd(b("pcm"), BigOf(0)),
                  rounded |-> BigAdd(b("pcm"), ulp("pcm"))],
         ac3 |-> [exact |-> BigAdd(b("ac3"), BigOf(0)),
                  rounded |-> BigAdd(b("ac3"), ulp("ac3"))]]
\* |ratio - 1| * 2^E * 5^x
RatioError(l) == BigMulPow5(l.ratio.mag, LoopGain(l.sink).exp10)

\* C19 as stated: the history is clamped and the double returned satisfies
\* |ratio - 1| <= G * T.
RatioWithinGainTimesTarget ==
    /\ HistoryClamped
    /\ BigLeq(RatioError(loop), RatioBound[loop.sink].exact)

\* C19, amended: the history is clamped, and the double returned is within
\* G * T of 1 up to the rounding of the double arithmetic:
\* |ratio - 1| <= G * T + 2^-52.
RatioWithinGainTimesTargetRounded ==
    /\ HistoryClamped
    /\ BigLeq(RatioError(loop), RatioBound[loop.sink].rounded)

\* A reachable state: the PCM ring was empty at H calls in a row, the history
\* index has wrapped, and the ratio returned is the double above 1 + G * T.
RatioAtUpperEnd ==
    /\ loop.sink = "pcm"
    /\ loop.sum = HistSize(loop.sink) * Target(loop.sink)
    /\ loop.histidx = 3
    /\ ~loop.ratio.neg
    /\ ~BigLeq(RatioError(loop), RatioBound[loop.sink].exact)

\* The loop has run for SteadyChunks chunks and has seen the fill since.
DriftSteady == drift.chunks > SteadyChunks

\* C20 as stated: with the producer 0.05 % fast, after steady state the fill
\* the control loop sees lies in [T/2, 2T], no push is cut short, and the
\* ratios since the steady state average below 1.
FillWithinHalfAndTwiceTarget ==
    DriftSteady =>
        /\ drift.fill_seen >= PCM_SINK_BUFFER_TARGET_SAMPLES \div 2
        /\ drift.fill_seen <= 2 * PCM_SINK_BUFFER_TARGET_SAMPLES
        /\ ~drift.dropped
        /\ pcm_buffer_used(pcm) <= PCM_SINK_SAMPLE_BUFFER_SIZE_MASK
        /\ drift.steady_sum < 0

\* C20, amended: with the producer 0.05 % fast, after steady state the fill
\* the control loop sees lies in [T, 2T + P] (P the output block), no push is
\* cut short, and the ratios since the steady state average below 1 (each
\* of them is below 1).
FillWithinTargetAndTwiceTargetPlusBlock ==
    DriftSteady =>
        /\ drift.fill_seen >= PCM_SINK_BUFFER_TARGET_SAMPLES
        /\ drift.fill_seen <= 2 * PCM_SINK_BUFFER_TARGET_SAMPLES
                               + PCM_SINK_OUTPUT_CHUNK_SIZE
        /\ ~drift.dropped
        /\ pcm_buffer_used(pcm) <= PCM_SINK_SAMPLE_BUFFER_SIZE_MASK
        /\ drift.steady_sum < 0
        /\ loop.sum < 0
        /\ loop.ratio.neg

\* A reachable state: in the steady state the loop has just seen more than
\* 2T samples in the ring and has answered with a ratio below 1.
FillAboveTwiceTarget ==
    /\ DriftSteady
    /\ drift.fill_seen > 2 * PCM_SINK_BUFFER_TARGET_SAMPLES
    /\ loop.ratio.neg
    /\ drift.playing

\* The 16-bit word on the wire carried by the S16LE sample of the last call.
ProbeWord == (probe.sample % 256) * 256 + (probe.sample \div 256)

\* The transition table of the states before the header: the next state for
\* a zero word, for 0xF872, for 0x4E1F and for any other word.
PreHeaderTable ==
    [zero  |-> <<1, 2, 3, 4, 4, 0>>,
     sync0 |-> <<0, 0, 0, 0, 5, 0>>,
     sync1 |-> <<0, 0, 0, 0, 0, 6>>,
     other |-> <<0, 0, 0, 0, 0, 0>>]

WordClass(w) ==
    IF w = 0 THEN "zero"
    ELSE IF w = 63602 THEN "sync0"
    ELSE IF w = 19999 THEN "sync1"
    ELSE "other"

\* C21: in each of the six states before the header and for every 16-bit
\* sample, the state after iec_61937_fsm_run is the one of the transition
\* table for the byte-swapped sample; SYNC_0 stays on zero and SYNC_1 goes to
\* FIRST_0 on every word but 0x4E1F, zero included.
PreHeaderFollowsTable ==
    (probe.called /\ probe.before.state \in 0..5) =>
        /\ fsm.state = PreHeaderTable[WordClass(ProbeWord)][probe.before.state + 1]
        /\ (probe.before.state = 4 /\ ProbeWord = 0 => fsm.state = 4)
        /\ (probe.before.state = 5 /\ ProbeWord # 19999 => fsm.state = 0)
        /\ cb_log = <<>>

\* A reachable state: SYNC_1 was given a zero word and fell back to FIRST_0.
Sync1ZeroToFirst0 ==
    /\ probe.called
    /\ probe.before.state = 5
    /\ probe.sample = 0
    /\ fsm.state = 0

\* C22: iec_61937_fsm_run returns true exactly when the state it leaves
\* behind is DATA_TYPE, LENGTH or PAYLOAD; the call that completes a payload
\* and the call that rejects a data type leave FIRST_0 and return false.
ReturnsTrueIffBeyondSync1 ==
    probe.called =>
        /\ ret = (fsm.state \in {6, 7, 8})
        /\ (cb_log # <<>> => fsm.state = 0 /\ ~ret)
        /\ (probe.before.state \in {6, 7} /\ fsm.state = 0 => ~ret)

\* A reachable state: the call that completed a payload returned false.
PayloadCompletedReturnsFalse ==
    /\ probe.called
    /\ probe.before.state = 8
    /\ cb_log # <<>>
    /\ fsm.state = 0
    /\ ~ret

\* C23: no callback is made for a data type other than 0x01.  In DATA_TYPE
\* the type stored is the word & 0x7F; 0x1F sends the machine to FIRST_0, any
\* other type to LENGTH.  In LENGTH a type other than AC-3 sends it to
\* FIRST_0.  None of these calls makes a callback or touches the payload
\* buffer or its index.
NoCallbackForOtherTypes ==
    /\ \A i \in 1..Len(cb_log) : cb_log[i].data_type = 1
    /\ (probe.called /\ probe.before.state = 6) =>
          /\ fsm.data_type = ProbeWord % 128
          /\ fsm.state = (IF ProbeWord % 128 = 31 THEN 0 ELSE 7)
          /\ cb_log = <<>>
          /\ fsm.payload = probe.before.payload
          /\ fsm.bytes_received = probe.before.bytes_received
    /\ (probe.called /\ probe.before.state = 7 /\ probe.before.data_type # 1) =>
          /\ fsm.state = 0
          /\ cb_log = <<>>
          /\ fsm.payload = probe.before.payload
          /\ fsm.bytes_received = probe.before.bytes_received
          /\ fsm.payload_len = probe.before.payload_len

\* A reachable state: a burst of a type that is neither AC-3 nor extended
\* was dropped at its length word, after an AC-3 burst had left bytes in
\* the payload buffer.
OtherTypeDroppedAtLength ==
    /\ probe.called
    /\ probe.before.state = 7
    /\ probe.before.data_type \notin {1, 31}
    /\ probe.before.bytes_received > 0
    /\ fsm.state = 0
    /\ cb_log = <<>>

\* C24: every callback's len is the payload_len taken from the length word
\* (the word / 8, kept through PAYLOAD), and the payload handed over is the
\* one before the call with the sample's high byte and, only if two bytes
\* were still missing, its low byte; with an odd payload_len the last
\* sample's low byte is dropped.  The callback is made by the call that
\* finds one or two bytes missing.
CallbackLenIsPayloadLen ==
    probe.called =>
        /\ (probe.before.state = 7 /\ probe.before.data_type = 1) =>
              fsm.payload_len = ProbeWord \div 8 /\ fsm.state = 8
        /\ probe.before.state = 8 => fsm.payload_len = probe.before.payload_len
        /\ (probe.before.state = 8
                /\ probe.before.bytes_received < probe.before.payload_len) =>
              (Len(cb_log) = 1) =
                 (probe.before.payload_len - probe.before.bytes_received <= 2)
        /\ \A i \in 1..Len(cb_log) :
              /\ cb_log[i].len = probe.before.payload_len
              /\ cb_log[i].len = Len(cb_log[i].payload)
              /\ cb_log[i].payload =
                    probe.before.payload \o
                    (IF probe.before.payload_len - probe.before.bytes_received >= 2
                     THEN <<ProbeWord \div 256, ProbeWord % 256>>
                     ELSE <<ProbeWord \div 256>>)

\* A reachable state: a burst of 3 bytes was handed over, the low byte of
\* its last sample (not zero) left out.
OddPayloadPadDropped ==
    /\ probe.called
    /\ Len(cb_log) = 1
    /\ cb_log[1].len = 3
    /\ probe.before.payload_len = 3
    /\ ProbeWord % 256 # 0
    /\ cb_log[1].payload[3] = ProbeWord \div 256

\* C25: from FIRST_0, k zero samples, 0xF872 and 0x4E1F end in DATA_TYPE with
\* the last call returning true when k >= 4, for every k; with k < 4 no call
\* returns true and the machine does not reach DATA_TYPE.
ZerosThenSyncLocks ==
    (probe.start = 0) =>
        /\ (stream = <<>> /\ probe.zeros >= 4) => (fsm.state = 6 /\ ret)
        /\ probe.zeros < 4 => (~ret /\ fsm.state < 5)
        /\ stream # <<>> => ~ret

\* A reachable state: lock after a run of MaxZeros zeros from FIRST_0.
LongZeroRunLocked ==
    /\ probe.start = 0
    /\ probe.zeros = MaxZeros
    /\ stream = <<>>
    /\ fsm.state = 6
    /\ ret

PcmProcessCalls ==
    SelectSeq(chunk_ev.calls, LAMBDA c : c = "pcm_sink_process")

\* C27: in mode PCM the whole chunk goes through the 61937 machine before
\* anything else is done with it; a chunk that is not locked is then handed to
\* pcm_sink_process exactly once, a locked chunk is not handed to it at all,
\* whichever of its samples raised the lock, and the PCM sink is closed.
PcmChunkForwardedUnlessLocked ==
    [][arb.state = "PCM" =>
          /\ \E chunk \in Chunks :
                LET r == process_chunk_iec_61937(fsm, chunk, Len(chunk))
                IN  /\ fsm' = r.fsm
                    /\ chunk_ev'.locked = r.ret
          /\ chunk_ev'.mode = "PCM"
          /\ Len(PcmProcessCalls') = IF chunk_ev'.locked THEN 0 ELSE 1
          /\ chunk_ev'.locked => (arb'.state = "61937" /\ ~SinkOpen(pcm'))
          /\ ~chunk_ev'.locked => (chunk_ev'.calls = <<"pcm_sink_process">>
                                   /\ arb' = arb /\ pcm' = pcm)
      ]_vars

\* A reachable state: in mode PCM the lock came before the last sample of the
\* chunk, and no part of the chunk reached the PCM sink.
PcmLockedMidChunkNotForwarded ==
    /\ chunk_ev.mode = "PCM"
    /\ chunk_ev.locked
    /\ fsm.state > IEC_61937_STATE_DATA_TYPE
    /\ PcmProcessCalls = <<>>

\* C28: pcm_sink_process with the lock held stores min(free space,
\* 2 * output_frames_gen) samples: the first ones of the resampled chunk, one
\* after the other in the slots from write_idx on, none of them in a slot
\* whose sample is still to be copied out; the rest of the chunk is stored
\* nowhere, write_idx advances by the number stored and read_idx is left
\* alone.
PcmPushStoresWhatFits ==
    [][(sink = "pcm" /\ prod_pc = "crit" /\ prod_pc' = "bcast") =>
          LET used == (pcm.write_idx - pcm.read_idx + 2048) % 2048
              free == 2047 - used
              want == 2 * pcm.output_frames_gen
              will == IF free < want THEN free ELSE want
              slots == PcmQueueSlots(pcm)
          IN  /\ Len(slots) = will
              /\ \A i \in 1..will :
                    /\ slots[i] = (pcm.write_idx + i - 1) % 2048
                    /\ (slots[i] - pcm.read_idx + 2048) % 2048 >= used
              /\ pcm'.write_idx = (pcm.write_idx + will) % 2048
              /\ pcm'.read_idx = pcm.read_idx
              /\ (pcm'.write_idx - pcm'.read_idx + 2048) % 2048 = used + will
              /\ queued' = queued + will
              /\ last_op'.n = will
              /\ (last_op'.op = "trunc") = (free < want)
      ]_vars

\* A reachable state: a push has just filled the ring, storing a part of its
\* chunk only.
PcmPushCutShort ==
    /\ sink = "pcm"
    /\ prod_pc = "bcast"
    /\ last_op.op = "trunc"
    /\ last_op.n > 0
    /\ last_op.n < 2 * pcm.output_frames_gen
    /\ pcm_buffer_used(pcm) = PCM_SINK_SAMPLE_BUFFER_SIZE_MASK

\* The number of samples output_thread copies out at a time.
OutputChunk == IF sink = "pcm" THEN 32 ELSE 96

\* C29: with the lock held, either thread copies a block out only when at
\* least a block is waiting and thread_run is set; the copy advances read_idx
\* by exactly one block, modulo the ring size, and takes one block from the
\* samples waiting.  With thread_run cleared the thread leaves its loop and
\* read_idx stays where it was, however many samples are waiting; with
\* thread_run set and less than a block waiting it waits.
ConsumerCopiesBlockOrExits ==
    [][(cons_pc = "check" /\ cons_pc' # "check") =>
          LET s == OpenSink
              size == IF sink = "pcm" THEN 2048 ELSE 32768
              fill == (s.write_idx - s.read_idx + size) % size
          IN  /\ (cons_pc' = "write") = (fill >= OutputChunk /\ s.thread_run)
              /\ (cons_pc' = "exit") = ~s.thread_run
              /\ (cons_pc' = "wait") = (fill < OutputChunk /\ s.thread_run)
              /\ cons_pc' = "write" =>
                    /\ OpenSink'.read_idx = (s.read_idx + OutputChunk) % size
                    /\ OpenSink'.write_idx = s.write_idx
                    /\ queued' = queued - OutputChunk
              /\ cons_pc' # "write" => (OpenSink' = s /\ queued' = queued)
      ]_vars

\* A reachable state: the thread has left its loop with at least a block
\* still waiting, during a close.
ExitedWithBlockWaiting ==
    /\ cons_pc = "exit"
    /\ prod_pc = "join"
    /\ queued >= OutputChunk
    /\ ~OpenSink.thread_run

\* The samples waiting in the open sink's ring.
OpenFill == RingFill(OpenSink, RingSize(sink))

\* C30: while the sink is open, a ring holding at least a block leads to the
\* thread copying a block out, unless a close clears thread_run first: the
\* thread is never left inside pthread_cond_wait with a block waiting and no
\* broadcast to come, although *_sink_process broadcasts after the unlock and
\* ac3_sink_process returns without a broadcast when it drops a frame.
\* In two parts: again and again the thread has just copied a block out, or
\* thread_run is cleared, or less than a block is waiting; and the number of
\* samples waiting falls by the thread copying a block out and in no other
\* way.  So a block that waits is copied out.
BlockWaitingIsPopped ==
    /\ []<>(cons_pc = "write" \/ ~OpenSink.thread_run \/ OpenFill < OutputChunk)
    /\ [][OpenFill' < OpenFill => (cons_pc = "check" /\ cons_pc' = "write")]_vars

\* A reachable state: the thread is inside pthread_cond_wait, a push has
\* made a block available and released the mutex, and its broadcast is still
\* to come.
AsleepWithBlockBeforeBroadcast ==
    /\ cons_pc = "wait"
    /\ prod_pc = "bcast"
    /\ OpenSink.thread_run
    /\ RingFill(OpenSink, RingSize(sink)) >= OutputChunk

\* The double 1.0, as loop.ratio holds it.
RatioOne == [neg |-> FALSE, mag |-> BigOf(0)]

\* C31: right after pcm_sink_open or ac3_sink_open, the first open or a later
\* one, write_idx is the target T, read_idx is 0, T samples are waiting, the
\* array is all zero as the memset left it, the sixteen history entries are
\* zero, histidx is 0 and src_data.src_ratio is 1.0, whatever the struct held
\* when it was closed.
OpenStartsFresh ==
    last_op.op = "open" =>
        /\ sink \in {"pcm", "ac3"}
        /\ OpenSink.write_idx = IF sink = "pcm" THEN 128 ELSE 384
        /\ OpenSink.read_idx = 0
        /\ OpenFill = IF sink = "pcm" THEN 128 ELSE 384
        /\ queued = OpenFill
        /\ OpenSink.buffer = "zeros"
        /\ OpenSink.output_frames_gen = 0
        /\ OpenSink.thread_run
        /\ \A i \in 0..15 : loop.history[i] = 0
        /\ loop.histidx = 0
        /\ loop.sum = 0
        /\ loop.average = 0
        /\ loop.ratio = RatioOne
        /\ loop.sink = sink

\* A reachable state: a sink has just been opened again, and when it was
\* closed its indices, its array, its history and its ratio were not those
\* of a fresh sink.
ReopenedOverStale ==
    /\ last_op.op = "open"
    /\ last_op.opens = 2
    /\ last_op.stale.sink = sink
    /\ last_op.stale.s.read_idx # 0
    /\ last_op.stale.s.write_idx # OpenSink.write_idx
    /\ last_op.stale.s.buffer = "samples"
    /\ last_op.stale.l.histidx # 0
    /\ last_op.stale.l.ratio # RatioOne
    /\ \E i \in 0..15 : last_op.stale.l.history[i] # 0

\* C32: in a call of *_sink_process that gets as far as the resampler, each
\* src_process call (one in the PCM sink, six in the AC-3 sink) is given the
\* ratio the struct held when the call began: 1.0 if calculate_rate_ratio
\* has not run since the open, else what the last run returned.  The history
\* entry the call writes is the clamped T - fill for the fill before the
\* call's own samples are stored, and the ratio the call computes is left in
\* the struct for the next call.
RatioUsedInNextCall ==
    [][(last_op'.calls = last_op.calls + 1
           /\ last_op'.op \in {"push", "trunc", "drop"}) =>
          LET T == IF sink = "pcm" THEN 128 ELSE 384
              fill == OpenFill
              raw == T - fill
              offset == IF raw < -T THEN -T ELSE IF raw > T THEN T ELSE raw
              sum == loop.sum - loop.history[loop.histidx] + offset
          IN  /\ last_op'.used = fill
              /\ loop'.history[loop.histidx] = offset
              /\ loop'.sum = sum
              /\ loop'.ratio = RatioDouble(sink, sum)
              /\ Len(last_op'.src_ratios) = IF sink = "pcm" THEN 1 ELSE 6
              /\ \A i \in 1..Len(last_op'.src_ratios) :
                    last_op'.src_ratios[i] = loop.ratio
              /\ (loop.histidx = 0 /\ loop.sum = 0) => loop.ratio = RatioOne
      ]_vars

\* A reachable state: a call has just resampled with a ratio that is not 1.0
\* and is not the one it computed itself.
ResampledWithEarlierRatio ==
    /\ last_op.op = "push"
    /\ last_op.calls >= 2
    /\ last_op.src_ratios # <<>>
    /\ last_op.src_ratios[1] # RatioOne
    /\ last_op.src_ratios[1] # loop.ratio

\* What ac3_sink_process returns early on.
SoftErrors == {"error", "eagain", "noframe", "channels"}

\* C33: a call of ac3_sink_process that the decoder answers with an error,
\* with EAGAIN, with no frame or with a frame that has not six channels
\* leaves write_idx, read_idx, the array, the history and the ratio as they
\* were; and no call of *_sink_process, whatever its outcome, touches the
\* arbiter's mode or non_61937_chunks.
SoftErrorLeavesSinkAlone ==
    [][(last_op'.calls = last_op.calls + 1) =>
          /\ arb' = arb
          /\ last_op'.op \in SoftErrors =>
                /\ sink = "ac3"
                /\ ac3' = ac3
                /\ pcm' = pcm
                /\ loop' = loop
                /\ queued' = queued
      ]_vars

\* A reachable state: the AC-3 sink has stored frames and run its control
\* loop, and its last call was a frame with the wrong channel count.
SoftErrorAfterPushes ==
    /\ sink = "ac3"
    /\ last_op.op = "channels"
    /\ last_op.calls = MaxCalls
    /\ loop.histidx = 2
    /\ loop.ratio # RatioOne
    /\ ac3.buffer = "samples"

\* C34: in mode 61937, once the input is silence, the arbiter is in PCM (the
\* AC-3 sink closed, the PCM sink open) after at most 65 chunks: one that
\* may still be locked by the burst under way, and the 64 of the window.
SilenceLeaves61937 ==
    probe.zeros >= IEC_61937_DETECTION_WINDOW + 1
        => /\ arb.state = "PCM"
           /\ ~SinkOpen(ac3)
           /\ SinkOpen(pcm)

\* The same with the machine's payload index within the burst's length:
\* holds under SpecSilence.
SilenceLeaves61937WithinPayload ==
    (probe.zeros >= IEC_61937_DETECTION_WINDOW + 1
       /\ fsm.bytes_received <= fsm.payload_len)
        => /\ arb.state = "PCM"
           /\ ~SinkOpen(ac3)
           /\ SinkOpen(pcm)

\* The life-cycle calls given, made one after the other on sinks that are
\* open or not as given: every open finds its sink not open, every close
\* finds its sink open.
RECURSIVE CallsAlternate(_, _, _)
CallsAlternate(pcmOpen, ac3Open, calls) ==
    IF calls = <<>> THEN TRUE
    ELSE CASE Head(calls) = "pcm_sink_open" ->
                  ~pcmOpen /\ CallsAlternate(TRUE, ac3Open, Tail(calls))
           [] Head(calls) = "pcm_sink_close" ->
                  pcmOpen /\ CallsAlternate(FALSE, ac3Open, Tail(calls))
           [] Head(calls) = "ac3_sink_open" ->
                  ~ac3Open /\ CallsAlternate(pcmOpen, TRUE, Tail(calls))
           [] Head(calls) = "ac3_sink_close" ->
                  ac3Open /\ CallsAlternate(pcmOpen, FALSE, Tail(calls))
           [] OTHER -> CallsAlternate(pcmOpen, ac3Open, Tail(calls))

\* C35: between chunks the mode and the open sink agree (UNKNOWN iff no sink
\* is open, PCM iff only the PCM sink is open, 61937 iff only the AC-3 sink is
\* open), the arbiter never goes back to UNKNOWN, and the open and close
\* calls of each sink alternate: no open of an open sink, no close of a sink
\* that is not open.
ModeAndSinkAgree ==
    /\ [](/\ arb.state = "UNKNOWN" <=> (~pcm.pa_inst /\ ~ac3.pa_inst)
          /\ arb.state = "PCM" <=> (pcm.pa_inst /\ ~ac3.pa_inst)
          /\ arb.state = "61937" <=> (~pcm.pa_inst /\ ac3.pa_inst))
    /\ [][arb.state # "UNKNOWN" => arb'.state # "UNKNOWN"]_vars
    /\ [][CallsAlternate(pcm.pa_inst, ac3.pa_inst, chunk_ev'.calls)]_vars

\* A reachable state: the arbiter has just switched from PCM to 61937, the
\* PCM sink opened earlier now closed and the AC-3 sink open.
SwitchedFromPcmTo61937 ==
    /\ chunk_ev.mode = "PCM"
    /\ arb.state = "61937"
    /\ chunk_ev.calls = <<"pcm_sink_close", "ac3_sink_open">>
    /\ ~pcm.pa_inst
    /\ pcm.thread = "joined"
    /\ ac3.pa_inst

\* What C36 says of a chunk just processed.
LockedWhateverType ==
    /\ chunk_ev.locked
    /\ chunk_ev.mode \in {"UNKNOWN", "PCM"}
          => /\ arb.state = "61937"
             /\ ac3.pa_inst
             /\ ~pcm.pa_inst
             /\ LifeCycleCalls[Len(LifeCycleCalls)] = "ac3_sink_open"
    /\ chunk_ev.mode = "61937"
          => /\ arb.state = "61937"
             /\ arb.non_61937_chunks = 0
    /\ probe.before.state <= IEC_61937_STATE_SYNC_0
          => /\ cb_log = <<>>
             /\ fsm.state <= IEC_61937_STATE_SYNC_0

HeaderLocksWhenHunting ==
    (probe.called /\ probe.before.state <= IEC_61937_STATE_SYNC_0)
        => LockedWhateverType

\* Such a chunk found the machine in SYNC_1 and was not locked.
HeaderAfterSyncWordNotLocked ==
    /\ probe.called
    /\ probe.before.state = IEC_61937_STATE_SYNC_1
    /\ ~chunk_ev.locked
    /\ chunk_ev.mode = arb.state

\* A reachable state: such a chunk, with the extended data type, has moved
\* the arbiter from PCM to 61937.
ExtendedTypeLockedFromPcm ==
    /\ probe.called
    /\ probe.sample = IEC_61937_DATA_TYPE_EXTENDED
    /\ probe.before.state <= IEC_61937_STATE_SYNC_0
    /\ chunk_ev.mode = "PCM"
    /\ LockedWhateverType

====
